---- MODULE Spec2Model ----
(***************************************************************************)
(* A model of the conversational MongoDB agent:                            *)
(*   - StatefulMongoDBAgent.query, the turn operation, with the            *)
(*     agent/tools graph of AgentWorkflow and the ConversationMemoryManager *)
(*     (specification Spec, and FairSpec for its termination);             *)
(*   - sanitizePipeline, the recursive rewrite of an aggregation pipeline  *)
(*     (specification SanitizeSpec);                                       *)
(*   - the four tools of MongoDBToolsFactory, invoked against a document   *)
(*     store (specification ToolsSpec);                                    *)
(*   - the ConversationMemoryManager called on its own                     *)
(*     (specification MemorySpec);                                         *)
(*   - extractCompletePathInfo and formatFieldForAgent of the schema       *)
(*     generator, the reflection and the text of one field                 *)
(*     (specification FormatSpec).                                         *)
(***************************************************************************)
EXTENDS Integers, Sequences, FiniteSets, TLC

(***************************************************************************)
(* Bounds of the model and constants of the program.                       *)
(***************************************************************************)
\* The most tool invocations one response of the reasoning capability carries.
MaxToolCalls == 2

\* recursionLimit handed to the compiled graph: the number of node
\* executions (super-steps) one invoke may perform.
RecursionLimit == 20

\* The callers of the one agent instance that may be inside query at once.
Turns == {"t1", "t2"}
Sessions == {"s1", "s2"}
Queries == {"q1", "q2"}

\* Error messages.
MemoryBackendError == "memory backend unreachable"
ModelError == "reasoning capability failed"
GraphRecursionError == "Recursion limit reached"
NoValidResponseError == "No valid AI response generated"

(***************************************************************************)
(* Messages.  A tool message carries the envelope the tool returned; only  *)
(* its success flag is kept.                                               *)
(***************************************************************************)
HumanMessage(q) == [type |-> "human", content |-> q]
AIMessage(n) ==
    [type |-> "ai", content |-> IF n = 0 THEN "answer" ELSE "", tool_calls |-> n]
ToolMessage(ok) == [type |-> "tool", content |-> IF ok THEN "success" ELSE "failure"]
NoMessage == [type |-> "none"]
NoResult == [pending |-> TRUE]

VARIABLES
    memoryType,        \* MemoryConfig.type, "redis" or "memory"
    redisUrl,          \* env.REDIS_URL is set
    store,             \* the durable backend: session id -> list of messages
    pc,                \* where each turn is
    input,             \* query text of the turn
    sessionId,         \* sessionConfig.sessionId of the turn
    previousMessages,  \* the history read at the start of the turn
    currentMessage,    \* the HumanMessage of the turn
    lastMessage,       \* the last message of the graph state of the turn
    step,              \* node executions of the graph so far in the turn
    roundTrips,        \* history: Deciding-to-Acting transitions so far in the turn
    appended,          \* history: the messages the turn has put into the store
    result,            \* what query returned
    pipeline,          \* the pipeline the caller of sanitizePipeline holds
    rules,             \* the rule table
    original,          \* history: the pipeline as it was when sanitizePipeline was called
    sanitized,         \* the value sanitizePipeline returned
    sanitizedAgain,    \* the value a second call on the same pipeline returned
    sanPc,             \* "input" before the call, "done" after, "twice" after a second
    db,                \* the document store: collection -> its documents
    aggregateToolRules,\* the rule table the aggregate tool is built with
    toolPc,            \* "idle" before a tool is invoked, then "returned" or "raised"
    tool,              \* the tool that was invoked: its name and its session id
    toolInput,         \* the input it was invoked with
    outcome,           \* history: what the store or the reflection did in the call
    storeOps,          \* history: the operations the call issued to the store
    toolResult,        \* the envelope the tool returned, or the exception it raised
    memPc,             \* "off", or "ready" while the memory manager is exercised
    log,               \* history: session id -> messages added since the last clear
    listed,            \* session id -> what the last getMessages of it returned
    pathType,          \* the schema type of the path that is reflected
    pathInfo,          \* the info extractCompletePathInfo returned
    formatted,         \* the text formatFieldForAgent returned
    fmtPc              \* "off", or "type", "info", "text" as the two calls return

agentVars == <<memoryType, redisUrl, store, pc, input, sessionId, previousMessages,
               currentMessage, lastMessage, step, roundTrips, appended, result>>
turnVars == <<pc, input, sessionId, previousMessages, currentMessage, lastMessage,
              step, roundTrips, appended, result>>
sanVars == <<pipeline, rules, original, sanitized, sanitizedAgain, sanPc>>
toolVars == <<db, aggregateToolRules, toolPc, tool, toolInput, outcome, storeOps,
              toolResult>>
memVars == <<memPc, log, listed>>
fmtVars == <<pathType, pathInfo, formatted, fmtPc>>
vars == <<agentVars, sanVars, toolVars, memVars, fmtVars>>

(***************************************************************************)
(* ConversationMemoryManager                                               *)
(***************************************************************************)
\* getMessageHistory: the Redis history of the session when the type is
\* "redis" and a Redis URL is set; otherwise a new, empty in-process history
\* that is made for this one call.
UsesRedis == memoryType = "redis" /\ redisUrl

\* getMessages: what the history object of this call holds.
getMessages(s) == IF UsesRedis THEN store[s] ELSE <<>>

\* A slip in addMessage: one history for all the sessions.
addMessageShared(s, m) ==
    IF UsesRedis THEN [b \in Sessions |-> Append(store[b], m)] ELSE store

\* addMessage: the store after history.addMessage(message) on the history
\* object of this call.  The in-process object is dropped after the call.
addMessage(s, m) ==
    IF UsesRedis THEN [store EXCEPT ![s] = Append(@, m)] ELSE store

\* clearSession: the store after history.clear().
clearStore(s) == IF UsesRedis THEN [store EXCEPT ![s] = <<>>] ELSE store

\* Only the durable backend talks to another process and can fail.
MemoryCanFail == UsesRedis

(***************************************************************************)
(* AgentWorkflow                                                           *)
(***************************************************************************)
\* A slip in shouldContinue: one tool invocation is not enough to go on.
shouldContinueMoreThanOne(last) ==
    IF last.type = "ai" /\ last.tool_calls > 1 THEN "tools" ELSE "__end__"

\* shouldContinue: the edge taken after the agent node.
shouldContinue(last) ==
    IF last.type = "ai" /\ last.tool_calls > 0 THEN "tools" ELSE "__end__"

\* The state of the turn a node or the end of the graph stands for.
StateOf(node) ==
    CASE node = "agent"   -> "Deciding"
      [] node = "tools"   -> "Acting"
      [] node = "__end__" -> "Done"

(***************************************************************************)
(* StatefulMongoDBAgent.query                                              *)
(***************************************************************************)
\* A slip in the catch block: the failure result also carries a response.
FailureResultWithResponse(s, q, err) ==
    [success |-> FALSE, sessionId |-> s, error |-> err, query |-> q, response |-> err]

\* The catch block of query: the failure result.
FailureResult(s, q, err) ==
    [success |-> FALSE, sessionId |-> s, error |-> err, query |-> q]

\* The result of a turn that stored its two messages.
SuccessResult(t, ai) ==
    [success |-> TRUE, sessionId |-> sessionId[t], response |-> ai.content,
     conversationLength |-> Len(previousMessages[t]) + 2, query |-> input[t],
     timestamp |-> "now"]

\* query fails and returns from its catch block.
Fail(t, err) ==
    /\ pc' = [pc EXCEPT ![t] = "Returned"]
    /\ result' = [result EXCEPT ![t] = FailureResult(sessionId[t], input[t], err)]

\* query is called and reads the history of the session.
QueryStart(t, q, s) ==
    /\ pc[t] = "Idle"
    /\ input' = [input EXCEPT ![t] = q]
    /\ sessionId' = [sessionId EXCEPT ![t] = s]
    /\ previousMessages' = [previousMessages EXCEPT ![t] = getMessages(s)]
    /\ currentMessage' = [currentMessage EXCEPT ![t] = HumanMessage(q)]
    /\ lastMessage' = [lastMessage EXCEPT ![t] = HumanMessage(q)]
    /\ step' = [step EXCEPT ![t] = 0]
    /\ pc' = [pc EXCEPT ![t] = StateOf("agent")]
    /\ UNCHANGED <<sanVars, toolVars, memVars, fmtVars, memoryType, redisUrl, store, roundTrips, appended, result>>

\* A slip in the read of the history: when the read fails the turn goes on
\* with the empty history of a new in-process object.
QueryStartFailsFallsBack(t, q, s) ==
    /\ pc[t] = "Idle"
    /\ MemoryCanFail
    /\ input' = [input EXCEPT ![t] = q]
    /\ sessionId' = [sessionId EXCEPT ![t] = s]
    /\ previousMessages' = [previousMessages EXCEPT ![t] = <<>>]
    /\ currentMessage' = [currentMessage EXCEPT ![t] = HumanMessage(q)]
    /\ lastMessage' = [lastMessage EXCEPT ![t] = HumanMessage(q)]
    /\ step' = [step EXCEPT ![t] = 0]
    /\ pc' = [pc EXCEPT ![t] = StateOf("agent")]
    /\ UNCHANGED <<sanVars, toolVars, memVars, fmtVars, memoryType, redisUrl, store, roundTrips, appended, result>>

\* query is called and the read of the history fails.
QueryStartFails(t, q, s) ==
    /\ pc[t] = "Idle"
    /\ MemoryCanFail
    /\ input' = [input EXCEPT ![t] = q]
    /\ sessionId' = [sessionId EXCEPT ![t] = s]
    /\ pc' = [pc EXCEPT ![t] = "Returned"]
    /\ result' = [result EXCEPT ![t] = FailureResult(s, q, MemoryBackendError)]
    /\ UNCHANGED <<sanVars, toolVars, memVars, fmtVars, memoryType, redisUrl, store, previousMessages, currentMessage,
                   lastMessage, step, roundTrips, appended>>

\* The agent node: one call of the reasoning capability; its response carries
\* n tool invocations.
CallModel(t, n) ==
    /\ pc[t] = "Deciding"
    /\ step[t] < RecursionLimit
    /\ LET response == AIMessage(n)
           next == StateOf(shouldContinue(response))
       IN /\ lastMessage' = [lastMessage EXCEPT ![t] = response]
          /\ pc' = [pc EXCEPT ![t] = next]
          /\ roundTrips' = [roundTrips EXCEPT ![t] = IF next = "Acting" THEN @ + 1 ELSE @]
    /\ step' = [step EXCEPT ![t] = @ + 1]
    /\ UNCHANGED <<sanVars, toolVars, memVars, fmtVars, memoryType, redisUrl, store, input, sessionId, previousMessages,
                   currentMessage, appended, result>>

\* The call of the reasoning capability throws.
CallModelFails(t) ==
    /\ pc[t] = "Deciding"
    /\ step[t] < RecursionLimit
    /\ Fail(t, ModelError)
    /\ UNCHANGED <<sanVars, toolVars, memVars, fmtVars, memoryType, redisUrl, store, input, sessionId, previousMessages,
                   currentMessage, lastMessage, step, roundTrips, appended>>

\* A slip in the tools node: a failure envelope of a tool ends the turn.
ExecuteToolsThrows(t, ok) ==
    /\ pc[t] = "Acting"
    /\ step[t] < RecursionLimit
    /\ lastMessage' = [lastMessage EXCEPT ![t] =
          IF @.type = "ai" /\ @.tool_calls > 0 THEN ToolMessage(ok) ELSE @]
    /\ step' = [step EXCEPT ![t] = @ + 1]
    /\ IF ok
       THEN pc' = [pc EXCEPT ![t] = StateOf("agent")] /\ UNCHANGED result
       ELSE Fail(t, "tool failure")
    /\ UNCHANGED <<sanVars, toolVars, memVars, fmtVars, memoryType, redisUrl, store, input, sessionId, previousMessages,
                   currentMessage, roundTrips, appended>>

\* The tools node: every requested invocation is executed and returns an
\* envelope, success or failure; the edge tools -> agent is taken.
ExecuteTools(t, ok) ==
    /\ pc[t] = "Acting"
    /\ step[t] < RecursionLimit
    /\ lastMessage' = [lastMessage EXCEPT ![t] =
          IF @.type = "ai" /\ @.tool_calls > 0 THEN ToolMessage(ok) ELSE @]
    /\ step' = [step EXCEPT ![t] = @ + 1]
    /\ pc' = [pc EXCEPT ![t] = StateOf("agent")]
    /\ UNCHANGED <<sanVars, toolVars, memVars, fmtVars, memoryType, redisUrl, store, input, sessionId, previousMessages,
                   currentMessage, roundTrips, appended, result>>

\* A slip in the bound: the turn is given up two steps early.
RecursionAbortEarly(t) ==
    /\ pc[t] \in {"Deciding", "Acting"}
    /\ step[t] >= RecursionLimit - 2
    /\ Fail(t, GraphRecursionError)
    /\ UNCHANGED <<sanVars, toolVars, memVars, fmtVars, memoryType, redisUrl, store, input, sessionId, previousMessages,
                   currentMessage, lastMessage, step, roundTrips, appended>>

\* A slip in the bound: when the limit is reached the count of steps starts
\* again and the graph goes on.
RecursionAbortResumes(t) ==
    /\ pc[t] \in {"Deciding", "Acting"}
    /\ step[t] >= RecursionLimit
    /\ step' = [step EXCEPT ![t] = 0]
    /\ roundTrips' = [roundTrips EXCEPT ![t] = 0]
    /\ UNCHANGED <<sanVars, toolVars, memVars, fmtVars, memoryType, redisUrl, store, input, sessionId, previousMessages,
                   currentMessage, lastMessage, pc, result, appended>>

\* The graph has run recursionLimit nodes and another one is due: invoke
\* throws, query returns from its catch block.
RecursionAbort(t) ==
    /\ pc[t] \in {"Deciding", "Acting"}
    /\ step[t] >= RecursionLimit
    /\ Fail(t, GraphRecursionError)
    /\ UNCHANGED <<sanVars, toolVars, memVars, fmtVars, memoryType, redisUrl, store, input, sessionId, previousMessages,
                   currentMessage, lastMessage, step, roundTrips, appended>>

\* invoke has returned.  The last message is the answer when it is an AI
\* message, and the first addMessage stores the user message of the turn;
\* with any other last message query throws.
StoreUserMessage(t) ==
    /\ pc[t] = "Done"
    /\ IF lastMessage[t].type = "ai"
       THEN /\ store' = addMessage(sessionId[t], currentMessage[t])
            /\ appended' = [appended EXCEPT ![t] =
                  IF UsesRedis THEN Append(@, currentMessage[t]) ELSE @]
            /\ pc' = [pc EXCEPT ![t] = "Storing"]
            /\ UNCHANGED result
       ELSE /\ Fail(t, NoValidResponseError)
            /\ UNCHANGED <<store, appended>>
    /\ UNCHANGED <<sanVars, toolVars, memVars, fmtVars, memoryType, redisUrl, input, sessionId, previousMessages,
                   currentMessage, lastMessage, step, roundTrips>>

\* The second addMessage, the answer, and the return of the success result.
StoreAnswer(t) ==
    /\ pc[t] = "Storing"
    /\ store' = addMessage(sessionId[t], lastMessage[t])
    /\ appended' = [appended EXCEPT ![t] =
          IF UsesRedis THEN Append(@, lastMessage[t]) ELSE @]
    /\ pc' = [pc EXCEPT ![t] = "Returned"]
    /\ result' = [result EXCEPT ![t] = SuccessResult(t, lastMessage[t])]
    /\ UNCHANGED <<sanVars, toolVars, memVars, fmtVars, memoryType, redisUrl, input, sessionId, previousMessages,
                   currentMessage, lastMessage, step, roundTrips>>

\* One of the two addMessage calls fails.
StoreFails(t) ==
    /\ pc[t] \in {"Done", "Storing"}
    /\ lastMessage[t].type = "ai"
    /\ MemoryCanFail
    /\ Fail(t, MemoryBackendError)
    /\ UNCHANGED <<sanVars, toolVars, memVars, fmtVars, memoryType, redisUrl, store, input, sessionId, previousMessages,
                   currentMessage, lastMessage, step, roundTrips, appended>>

\* StatefulMongoDBAgent.clearSession
ClearSession(s) ==
    /\ store' = clearStore(s)
    /\ UNCHANGED <<sanVars, toolVars, memVars, fmtVars, memoryType, redisUrl, pc, input, sessionId, previousMessages,
                   currentMessage, lastMessage, step, roundTrips, appended, result>>

AgentInit ==
    /\ memoryType \in {"redis", "memory"}
    /\ redisUrl \in BOOLEAN
    /\ store = [s \in Sessions |-> <<>>]
    /\ pc = [t \in Turns |-> "Idle"]
    /\ input = [t \in Turns |-> ""]
    /\ sessionId = [t \in Turns |-> ""]
    /\ previousMessages = [t \in Turns |-> <<>>]
    /\ currentMessage = [t \in Turns |-> NoMessage]
    /\ lastMessage = [t \in Turns |-> NoMessage]
    /\ step = [t \in Turns |-> 0]
    /\ roundTrips = [t \in Turns |-> 0]
    /\ appended = [t \in Turns |-> <<>>]
    /\ result = [t \in Turns |-> NoResult]

SanIdle ==
    /\ pipeline = <<>>
    /\ rules = [c \in {} |-> ""]
    /\ original = <<>>
    /\ sanitized = <<>>
    /\ sanitizedAgain = <<>>
    /\ sanPc = "off"

\* No tool is invoked.
NoToolResult == [pending |-> TRUE]
ToolIdle ==
    /\ db = [c \in {} |-> <<>>]
    /\ aggregateToolRules = [c \in {} |-> ""]
    /\ toolPc = "off"
    /\ tool = [name |-> "", sessionId |-> ""]
    /\ toolInput = [collection |-> ""]
    /\ outcome = [kind |-> "none"]
    /\ storeOps = <<>>
    /\ toolResult = NoToolResult

\* The memory manager is exercised by the turns only.
MemIdle ==
    /\ memPc = "off"
    /\ log = [s \in Sessions |-> <<>>]
    /\ listed = [s \in Sessions |-> [valid |-> FALSE, messages |-> <<>>]]

\* No path is reflected.
FmtIdle ==
    /\ pathType = [k \in {} |-> ""]
    /\ pathInfo = [k \in {} |-> ""]
    /\ formatted = ""
    /\ fmtPc = "off"

Init == AgentInit /\ SanIdle /\ ToolIdle /\ MemIdle /\ FmtIdle

Next ==
    \/ \E t \in Turns, q \in Queries, s \in Sessions : QueryStart(t, q, s)
    \/ \E t \in Turns, q \in Queries, s \in Sessions : QueryStartFails(t, q, s)
    \/ \E t \in Turns, n \in 0..MaxToolCalls : CallModel(t, n)
    \/ \E t \in Turns : CallModelFails(t)
    \/ \E t \in Turns, ok \in BOOLEAN : ExecuteTools(t, ok)
    \/ \E t \in Turns : RecursionAbort(t)
    \/ \E t \in Turns : StoreUserMessage(t)
    \/ \E t \in Turns : StoreAnswer(t)
    \/ \E t \in Turns : StoreFails(t)
    \/ \E s \in Sessions : ClearSession(s)

Spec == Init /\ [][Next]_vars

\* The next step of the graph of a turn: a node runs and returns or throws,
\* or the step bound stops the graph.
GraphStep(t) ==
    \/ \E n \in 0..MaxToolCalls : CallModel(t, n)
    \/ CallModelFails(t)
    \/ \E ok \in BOOLEAN : ExecuteTools(t, ok)
    \/ RecursionAbort(t)

\* The turns when every call of the reasoning capability and every tool
\* invocation comes back: a graph that can take a step does take one.  The
\* turns are on one session and have one query, which the graph never looks
\* at.
FairNext ==
    \/ \E t \in Turns : QueryStart(t, "q1", "s1")
    \/ \E t \in Turns : QueryStartFails(t, "q1", "s1")
    \/ \E t \in Turns, n \in 0..MaxToolCalls : CallModel(t, n)
    \/ \E t \in Turns : CallModelFails(t)
    \/ \E t \in Turns, ok \in BOOLEAN : ExecuteTools(t, ok)
    \/ \E t \in Turns : RecursionAbort(t)
    \/ \E t \in Turns : StoreUserMessage(t)
    \/ \E t \in Turns : StoreAnswer(t)
    \/ \E t \in Turns : StoreFails(t)
    \/ ClearSession("s1")
FairSpec ==
    Init /\ [][FairNext]_vars /\ \A t \in Turns : WF_vars(GraphStep(t))

(***************************************************************************)
(* sanitizePipeline                                                        *)
(*                                                                         *)
(* A stage is a function from its one key ("$lookup", "$facet",            *)
(* "$unionWith", "$match", "$project") to the value of the stage.  An      *)
(* optional field of an object is a field that is or is not in its DOMAIN. *)
(* The value of a $unionWith stage is an object or a bare collection name; *)
(* the bare name c is written [string |-> c].                              *)
(***************************************************************************)
\* The longest sub-pipeline of plain stages among the inputs.
MaxPlainStages == 2

String(c) == [string |-> c]
IsString(v) == "string" \in DOMAIN v
Has(o, k) == k \in DOMAIN o

MatchStage(f) == ("$match" :> f)
ProjectStage == ("$project" :> [total |-> "1"])
LookupStage(c) == ("$lookup" :> [from |-> c, as |-> "joined"])
LookupStageWith(c, sub) == ("$lookup" :> [from |-> c, as |-> "joined", pipeline |-> sub])
FacetStage(branches) == ("$facet" :> branches)
UnionBare(c) == ("$unionWith" :> String(c))
UnionColl(c) == ("$unionWith" :> [coll |-> c])
UnionWith(c, sub) == ("$unionWith" :> [coll |-> c, pipeline |-> sub])

\* The filters of the example rule table in aggregateToolRules.
UsersFilter == [isActive |-> "true"]
OrdersFilter == [status |-> "delivered"]
ExampleRules == [users |-> UsersFilter, orders |-> OrdersFilter]

\* The properties every object literal inherits from Object.prototype.
PrototypeNames ==
    {"constructor", "toString", "toLocaleString", "valueOf", "hasOwnProperty",
     "isPrototypeOf", "propertyIsEnumerable", "__proto__", "__defineGetter__",
     "__defineSetter__", "__lookupGetter__", "__lookupSetter__"}

\* The value a property read finds on the prototype.
Inherited(name) == [inherited |-> name]

\* rules[name] is truthy: the table has a rule of its own for the name, or
\* the name is one that the table inherits from Object.prototype.
HasRule(r, name) == name \in DOMAIN r \/ name \in PrototypeNames

\* rules[name], when it is truthy.
RuleOf(r, name) == IF name \in DOMAIN r THEN r[name] ELSE Inherited(name)

RECURSIVE sanitizePipeline(_, _)

\* A slip in the $lookup case: the filter is put after the caller's stages.
sanitizeLookupFilterLast(stage, r) ==
    LET lookup == stage["$lookup"]
        sub == IF Has(lookup, "pipeline") THEN lookup.pipeline ELSE <<>>
        sub2 == IF HasRule(r, lookup.from)
                THEN sub \o <<MatchStage(RuleOf(r, lookup.from))>>
                ELSE sub
    IN ("$lookup" :> (("pipeline" :> sub2) @@ lookup))

\* A slip in the $lookup case: the sub-pipeline is made empty whether or not
\* the stage had one.
sanitizeLookupResetSub(stage, r) ==
    LET lookup == stage["$lookup"]
        sub == <<>>
        sub2 == IF HasRule(r, lookup.from)
                THEN <<MatchStage(RuleOf(r, lookup.from))>> \o sub
                ELSE sub
    IN ("$lookup" :> (("pipeline" :> sub2) @@ lookup))

\* A slip in the $lookup case: the sub-pipeline of the stage is sanitized too.
sanitizeLookupRecurses(stage, r) ==
    LET lookup == stage["$lookup"]
        sub == IF Has(lookup, "pipeline") THEN sanitizePipeline(lookup.pipeline, r) ELSE <<>>
        sub2 == IF HasRule(r, lookup.from)
                THEN <<MatchStage(RuleOf(r, lookup.from))>> \o sub
                ELSE sub
    IN ("$lookup" :> (("pipeline" :> sub2) @@ lookup))

\* The $lookup case: a missing sub-pipeline is made empty; with a rule for
\* the foreign collection its filter is put in front of the sub-pipeline.
sanitizeLookup(stage, r) ==
    LET lookup == stage["$lookup"]
        sub == IF Has(lookup, "pipeline") THEN lookup.pipeline ELSE <<>>
        sub2 == IF HasRule(r, lookup.from)
                THEN <<MatchStage(RuleOf(r, lookup.from))>> \o sub
                ELSE sub
    IN ("$lookup" :> (("pipeline" :> sub2) @@ lookup))

\* A slip in the $facet case: every branch is given the sanitized
\* sub-pipeline of one and the same branch.
sanitizeFacetOneForAll(stage, r) ==
    LET facet == stage["$facet"]
        first == CHOOSE k \in DOMAIN facet : TRUE
    IN ("$facet" :> [key \in DOMAIN facet |-> sanitizePipeline(facet[first], r)])

\* The $facet case: every named sub-pipeline is sanitized with the same rules.
sanitizeFacet(stage, r) ==
    LET facet == stage["$facet"]
    IN ("$facet" :> [key \in DOMAIN facet |-> sanitizePipeline(facet[key], r)])

\* A slip in the $unionWith case: the sub-pipeline is not sanitized.
sanitizeUnionWithFlat(stage, r) ==
    LET union == stage["$unionWith"]
    IN IF IsString(union)
       THEN IF HasRule(r, union.string)
            THEN UnionWith(union.string, <<MatchStage(RuleOf(r, union.string))>>)
            ELSE UnionColl(union.string)
       ELSE IF Has(union, "pipeline")
       THEN LET sub2 == IF HasRule(r, union.coll)
                        THEN <<MatchStage(RuleOf(r, union.coll))>> \o union.pipeline
                        ELSE union.pipeline
            IN ("$unionWith" :> [union EXCEPT !.pipeline = sub2])
       ELSE ("$unionWith" :> union)

\* A slip in the $unionWith case: a bare name without a rule is wrapped with
\* an empty sub-pipeline.
sanitizeUnionWithEmptySub(stage, r) ==
    LET union == stage["$unionWith"]
    IN IF IsString(union)
       THEN IF HasRule(r, union.string)
            THEN UnionWith(union.string, <<MatchStage(RuleOf(r, union.string))>>)
            ELSE UnionWith(union.string, <<>>)
       ELSE IF Has(union, "pipeline")
       THEN LET sub == sanitizePipeline(union.pipeline, r)
                sub2 == IF HasRule(r, union.coll)
                        THEN <<MatchStage(RuleOf(r, union.coll))>> \o sub
                        ELSE sub
            IN ("$unionWith" :> [union EXCEPT !.pipeline = sub2])
       ELSE ("$unionWith" :> union)

\* The $unionWith case.  A bare name becomes {coll, pipeline: [filter]} with
\* a rule and {coll} without one.  An object with a sub-pipeline has it
\* sanitized, and then the filter of its collection put in front; an object
\* without a sub-pipeline is left as it is.
sanitizeUnionWith(stage, r) ==
    LET union == stage["$unionWith"]
    IN IF IsString(union)
       THEN IF HasRule(r, union.string)
            THEN UnionWith(union.string, <<MatchStage(RuleOf(r, union.string))>>)
            ELSE UnionColl(union.string)
       ELSE IF Has(union, "pipeline")
       THEN LET sub == sanitizePipeline(union.pipeline, r)
                sub2 == IF HasRule(r, union.coll)
                        THEN <<MatchStage(RuleOf(r, union.coll))>> \o sub
                        ELSE sub
            IN ("$unionWith" :> [union EXCEPT !.pipeline = sub2])
       ELSE ("$unionWith" :> union)

\* The callback of pipeline.map: the rewrite of one stage.
sanitizeStage(stage, r) ==
    IF Has(stage, "$lookup") THEN sanitizeLookup(stage, r)
    ELSE IF Has(stage, "$facet") THEN sanitizeFacet(stage, r)
    ELSE IF Has(stage, "$unionWith") THEN sanitizeUnionWith(stage, r)
    ELSE stage

\* A slip in the map: the stages that name no other collection are left out.
sanitizePipelineDropsPlain(p, r) ==
    LET kept == SelectSeq(p, LAMBDA stage : Has(stage, "$lookup") \/ Has(stage, "$facet")
                                              \/ Has(stage, "$unionWith"))
    IN [i \in 1..Len(kept) |-> sanitizeStage(kept[i], r)]

sanitizePipeline(p, r) ==
    IF p = <<>> THEN <<>>
    ELSE <<sanitizeStage(Head(p), r)>> \o sanitizePipeline(Tail(p), r)

\* The stage objects of the caller after the call.  The $lookup object, the
\* $facet object and the object of a $unionWith are written in place, so the
\* caller's stage shows the rewrite; a bare $unionWith name is a value of the
\* caller's stage that the call does not write.
RECURSIVE pipelineAfterCall(_, _)
pipelineAfterCall(p, r) ==
    IF p = <<>> THEN <<>>
    ELSE LET stage == Head(p)
             after == IF Has(stage, "$unionWith") /\ IsString(stage["$unionWith"])
                      THEN stage
                      ELSE sanitizeStage(stage, r)
         IN <<after>> \o pipelineAfterCall(Tail(p), r)

(***************************************************************************)
(* The pipelines and rule tables sanitizePipeline is called with.          *)
(***************************************************************************)
Colls == {"users", "orders", "logs", "constructor"}
PlainStages == {MatchStage(UsersFilter), ProjectStage}

RECURSIVE SeqsUpTo(_, _)
SeqsUpTo(S, n) ==
    IF n = 0 THEN {<<>>}
    ELSE LET shorter == SeqsUpTo(S, n - 1)
         IN shorter \cup {Append(q, x) : q \in shorter, x \in S}

\* The stages that name a collection, with the sub-pipelines of Subs.
RefStages(Subs) ==
    {LookupStage(c) : c \in Colls}
      \cup {LookupStageWith(c, sub) : c \in Colls, sub \in Subs}
      \cup {UnionBare(c) : c \in Colls}
      \cup {UnionColl(c) : c \in Colls}
      \cup {UnionWith(c, sub) : c \in Colls, sub \in Subs}

Singles(S) == {<<x>> : x \in S}

PlainSubs == SeqsUpTo(PlainStages, MaxPlainStages)
Stages1 == RefStages(PlainSubs)
Subs1 == Singles(Stages1) \cup {<<ProjectStage, x>> : x \in RefStages({<<>>})}
BranchSubs == Singles(RefStages({<<ProjectStage>>})) \cup {<<>>}
Facets ==
    {FacetStage([a |-> x, b |-> y]) : x \in BranchSubs, y \in BranchSubs}
      \cup {FacetStage([only |-> x]) : x \in Subs1}
Stages2 == RefStages(Subs1) \cup Facets
DeepStages ==
    {LookupStageWith(c1, <<FacetStage([a |-> <<UnionWith(c2, <<LookupStage(c3)>>)>>])>>) :
        c1 \in Colls, c2 \in Colls, c3 \in Colls}
      \cup {FacetStage([a |-> <<UnionWith(c1, <<FacetStage([b |-> <<UnionBare(c2)>>])>>)>>]) :
        c1 \in Colls, c2 \in Colls}

Pipelines ==
    {<<>>} \cup Singles(PlainStages \cup Stages1 \cup Stages2 \cup DeepStages)
      \cup {<<ProjectStage, x>> : x \in Stages1}
      \cup {<<x, MatchStage(UsersFilter)>> : x \in Stages1}

RuleTables == {[c \in D |-> ExampleRules[c]] : D \in SUBSET DOMAIN ExampleRules}
NoRules == [c \in {} |-> UsersFilter]

\* sanitizePipeline(pipeline, rules) is called and returns.
Sanitize ==
    /\ sanPc = "input"
    /\ sanitized' = sanitizePipeline(pipeline, rules)
    /\ pipeline' = pipelineAfterCall(pipeline, rules)
    /\ sanPc' = "done"
    /\ UNCHANGED <<agentVars, toolVars, memVars, fmtVars, rules, original, sanitizedAgain>>

\* The caller calls sanitizePipeline(pipeline, rules) a second time, with the
\* pipeline it still holds.  sanitized stays the value of the first call as
\* it was when that call returned.
SanitizeAgain ==
    /\ sanPc = "done"
    /\ sanitizedAgain' = sanitizePipeline(pipeline, rules)
    /\ pipeline' = pipelineAfterCall(pipeline, rules)
    /\ sanPc' = "twice"
    /\ UNCHANGED <<agentVars, toolVars, memVars, fmtVars, rules, original, sanitized>>

SanitizeInit ==
    /\ pipeline \in Pipelines
    /\ rules \in RuleTables
    /\ original = pipeline
    /\ sanitized = <<>>
    /\ sanitizedAgain = <<>>
    /\ sanPc = "input"

AgentIdle ==
    /\ memoryType = "memory"
    /\ redisUrl = FALSE
    /\ store = [s \in Sessions |-> <<>>]
    /\ pc = [t \in Turns |-> "Idle"]
    /\ input = [t \in Turns |-> ""]
    /\ sessionId = [t \in Turns |-> ""]
    /\ previousMessages = [t \in Turns |-> <<>>]
    /\ currentMessage = [t \in Turns |-> NoMessage]
    /\ lastMessage = [t \in Turns |-> NoMessage]
    /\ step = [t \in Turns |-> 0]
    /\ roundTrips = [t \in Turns |-> 0]
    /\ appended = [t \in Turns |-> <<>>]
    /\ result = [t \in Turns |-> NoResult]

SanitizeStart == SanitizeInit /\ AgentIdle /\ ToolIdle /\ MemIdle /\ FmtIdle
SanitizeNext == Sanitize \/ SanitizeAgain
SanitizeSpec == SanitizeStart /\ [][SanitizeNext]_vars

(***************************************************************************)
(* MongoDBToolsFactory: the four tools.                                    *)
(*                                                                         *)
(* A tool is tool(func, {schema}).  Invoking it first parses the input     *)
(* with the schema and raises ToolInputParsingException when the input     *)
(* does not match; only then func runs.  The body of func is one           *)
(* try/catch that returns an envelope as its JSON text; the model keeps    *)
(* the object that text encodes.  The projection and the sort of find are  *)
(* handed to the store as they are and are left out.                       *)
(***************************************************************************)
\* The most documents of a collection when its documents differ.
MaxDocs == 3

\* limit of findParamsSchema: min, max and default; the same numbers bound
\* safeLimit.
MinLimit == 1
MaxLimit == 50
DefaultLimit == 10

ECollectionNames == {"users", "products", "orders"}

\* String.prototype.toLowerCase on the names the tools are invoked with.
toLowerCase(c) == IF c = "Users" THEN "users" ELSE c

\* The message of the exception of a failed schema parse.
ToolInputParsingException == "Received tool input did not match expected schema"

\* A thrown value: new Error(message).
Error(message) == [isError |-> TRUE, message |-> message]

\* What the store does with an operation, and what the reflection of a model
\* does: it answers, or it throws an Error.
StoreMessages == {"unknown top level operator: $foo", "connection closed"}
Answers == [kind |-> "ok"]
Rejects(message) == [kind |-> "reject", message |-> message]
Outcomes == {Answers} \cup {Rejects(m) : m \in StoreMessages}
NotAsked == [kind |-> "none"]

\* Documents and filters.  A filter matches a document that has every field
\* of the filter with the value of the filter.
Doc(status) == [status |-> status]
Docs == {Doc("delivered"), Doc("pending")}
NoFilter == [k \in {} |-> ""]
Filters == {[status |-> "delivered"], [status |-> "pending"], UsersFilter}
Matches(doc, filter) ==
    \A k \in DOMAIN filter : k \in DOMAIN doc /\ doc[k] = filter[k]

Min(a, b) == IF a < b THEN a ELSE b
Max(a, b) == IF a > b THEN a ELSE b
Take(seq, n) == SubSeq(seq, 1, Min(n, Len(seq)))

\* model.find(filter).limit(n), model.countDocuments(filter) and
\* model.aggregate(pipeline) of the store.  Of a pipeline the store applies
\* the top-level $match stages; the other stages keep the documents.
Matching(c, filter) == SelectSeq(db[c], LAMBDA d : Matches(d, filter))
storeFind(c, filter, n) == Take(Matching(c, filter), n)
storeCount(c, filter) == Len(Matching(c, filter))
storeAggregate(c, p) ==
    SelectSeq(db[c], LAMBDA d :
        \A i \in 1..Len(p) : Has(p[i], "$match") => Matches(d, p[i]["$match"]))

\* getModel: the model of the lower-cased name, or an Error.
HasModel(collection) == toLowerCase(collection) \in {"users", "products", "orders"}
getModel(collection) == toLowerCase(collection)
InvalidCollectionName(collection) == Error("Invalid collection name: " \o collection)

\* The parse of the schemas: collection is z.nativeEnum(ECollectionNames);
\* limit is an optional integer of MinLimit..MaxLimit that defaults to
\* DefaultLimit; filter and pipeline are taken as they are.
ValidCollection(args) == args.collection \in ECollectionNames
ValidLimit(args) ==
    Has(args, "limit") => (args.limit >= MinLimit /\ args.limit <= MaxLimit)
findParamsSchema(args) == ValidCollection(args) /\ ValidLimit(args)
countParamsSchema(args) == ValidCollection(args)
aggregateParamsSchema(args) == ValidCollection(args)
collectionSchemaParamsSchema(args) == ValidCollection(args)
ParsedFind(args) ==
    IF Has(args, "limit") THEN args ELSE ("limit" :> DefaultLimit) @@ args

\* A slip in the catch blocks: the fallback text is returned for every
\* thrown value.
ErrorMessageFallback(thrown, fallback) == fallback

\* error instanceof Error ? error.message : fallback
ErrorMessage(thrown, fallback) ==
    IF thrown.isError THEN thrown.message ELSE fallback

\* The envelope of the catch blocks.
FailureEnvelope(sid, thrown, fallback) ==
    [success |-> FALSE, sessionId |-> sid, error |-> ErrorMessage(thrown, fallback)]

FilterOf(args) == IF Has(args, "filter") THEN args.filter ELSE NoFilter
LimitOf(args) == IF Has(args, "limit") THEN args.limit ELSE DefaultLimit

\* A slip in find: the limit handed to the store is the upper bound.
safeLimitUpperBound(limit) == Max(Min(MinLimit, limit), MaxLimit)

\* Math.min(Math.max(1, limit), 50)
safeLimit(limit) == Min(Max(MinLimit, limit), MaxLimit)

\* The function of the find tool, for a parsed input.
findFunc(sid, args, out) ==
    IF ~HasModel(args.collection)
    THEN FailureEnvelope(sid, InvalidCollectionName(args.collection),
                         "Find operation failed")
    ELSE IF out.kind = "reject"
    THEN FailureEnvelope(sid, Error(out.message), "Find operation failed")
    ELSE LET docs == storeFind(getModel(args.collection), FilterOf(args),
                               safeLimit(LimitOf(args)))
         IN [success |-> TRUE, sessionId |-> sid, collection |-> args.collection,
             found |-> Len(docs), limit |-> safeLimit(LimitOf(args)),
             documents |-> docs,
             query_info |-> [filter |-> FilterOf(args), projection |-> NoFilter,
                             sort |-> NoFilter]]

\* The operations find issues to the store.
findOps(args) ==
    IF HasModel(args.collection)
    THEN <<[op |-> "find", collection |-> getModel(args.collection),
            filter |-> FilterOf(args), limit |-> safeLimit(LimitOf(args))]>>
    ELSE <<>>

\* The function of the count tool.
countFunc(sid, args, out) ==
    IF ~HasModel(args.collection)
    THEN FailureEnvelope(sid, InvalidCollectionName(args.collection),
                         "Count operation failed")
    ELSE IF out.kind = "reject"
    THEN FailureEnvelope(sid, Error(out.message), "Count operation failed")
    ELSE [success |-> TRUE, sessionId |-> sid, collection |-> args.collection,
          count |-> storeCount(getModel(args.collection), FilterOf(args)),
          filter |-> FilterOf(args)]

countOps(args) ==
    IF HasModel(args.collection)
    THEN <<[op |-> "countDocuments", collection |-> getModel(args.collection),
            filter |-> FilterOf(args)]>>
    ELSE <<>>

\* The pipeline the aggregate tool hands to the store: the sanitized one
\* when the rule table has a rule, the input otherwise.
sanitizedPipeline(args, r) ==
    IF DOMAIN r # {} THEN sanitizePipeline(args.pipeline, r) ELSE args.pipeline

\* The function of the aggregate tool.
aggregateFunc(sid, args, r, out) ==
    IF ~HasModel(args.collection)
    THEN FailureEnvelope(sid, InvalidCollectionName(args.collection),
                         "Aggregation failed")
    ELSE IF out.kind = "reject"
    THEN FailureEnvelope(sid, Error(out.message), "Aggregation failed")
    ELSE LET documents == storeAggregate(getModel(args.collection),
                                         sanitizedPipeline(args, r))
         IN [success |-> TRUE, sessionId |-> sid, collection |-> args.collection,
             pipeline_stages |-> Len(sanitizedPipeline(args, r)),
             results |-> Len(documents), documents |-> documents]

aggregateOps(args, r) ==
    IF HasModel(args.collection)
    THEN <<[op |-> "aggregate", collection |-> getModel(args.collection),
            pipeline |-> sanitizedPipeline(args, r)]>>
    ELSE <<>>

\* The input object of aggregate after the call: its pipeline is the one
\* sanitizePipeline has written to.
aggregateInputAfter(args, r) ==
    IF DOMAIN r # {}
    THEN [args EXCEPT !.pipeline = pipelineAfterCall(args.pipeline, r)]
    ELSE args

\* The formatted schema of a model, its first paths: field path and text, in
\* the order of the paths.
formattedSchema(collection) ==
    CASE collection = "users" ->
           <<<<"name", "String(required)">>, <<"email", "String(required,unique)">>>>
      [] collection = "products" ->
           <<<<"name", "String(required)">>>>
      [] collection = "orders" ->
           <<<<"user", "ObjectId(required) -> users">>,
             <<"orderNumber", "String(required,unique)">>>>
EmptySchema == <<>>

\* getCollectionSchema: {} for a name without a model and when the
\* reflection of the model throws.
getCollectionSchema(collectionName, out) ==
    IF collectionName \notin ECollectionNames THEN EmptySchema
    ELSE IF out.kind = "reject" THEN EmptySchema
    ELSE formattedSchema(collectionName)

\* getDynamicCollectionSchema: getCollectionSchema, {} if it throws.
getDynamicCollectionSchema(collection, out) == getCollectionSchema(collection, out)

SchemaEmptyError == "The requested schema is empty or invalid, or collection not found"

\* A slip in the collectionSchema tool: an empty schema is returned as any
\* other.
collectionSchemaFuncNoCheck(sid, args, out) ==
    LET schema == getDynamicCollectionSchema(args.collection, out)
    IN [success |-> TRUE, sessionId |-> sid, collection |-> args.collection,
        fieldCount |-> Len(schema), collectionJsonSchema |-> schema,
        generatedDynamically |-> TRUE]

\* The function of the collectionSchema tool.
collectionSchemaFunc(sid, args, out) ==
    LET schema == getDynamicCollectionSchema(args.collection, out)
    IN IF Len(schema) = 0
       THEN FailureEnvelope(sid, Error(SchemaEmptyError),
                            "Collection schema retrieval failed")
       ELSE [success |-> TRUE, sessionId |-> sid, collection |-> args.collection,
             fieldCount |-> Len(schema), collectionJsonSchema |-> schema,
             generatedDynamically |-> TRUE]

\* The call of a tool whose input does not match its schema.
Raises(name, sid, args) ==
    /\ tool' = [name |-> name, sessionId |-> sid]
    /\ toolInput' = args
    /\ toolPc' = "raised"
    /\ toolResult' = [raised |-> ToolInputParsingException]
    /\ outcome' = NotAsked
    /\ storeOps' = <<>>

\* The call of a tool whose function ran and returned.
Returns(name, sid, argsAfter, envelope, ops, out) ==
    /\ tool' = [name |-> name, sessionId |-> sid]
    /\ toolInput' = argsAfter
    /\ toolPc' = "returned"
    /\ toolResult' = envelope
    /\ outcome' = IF ops = <<>> THEN NotAsked ELSE out
    /\ storeOps' = ops

\* The find tool is invoked.
Find(sid, args, out) ==
    /\ toolPc = "idle"
    /\ IF findParamsSchema(args)
       THEN Returns("find", sid, args, findFunc(sid, ParsedFind(args), out),
                    findOps(ParsedFind(args)), out)
       ELSE Raises("find", sid, args)
    /\ UNCHANGED <<agentVars, sanVars, memVars, fmtVars, db, aggregateToolRules>>

\* The count tool is invoked.
Count(sid, args, out) ==
    /\ toolPc = "idle"
    /\ IF countParamsSchema(args)
       THEN Returns("count", sid, args, countFunc(sid, args, out),
                    countOps(args), out)
       ELSE Raises("count", sid, args)
    /\ UNCHANGED <<agentVars, sanVars, memVars, fmtVars, db, aggregateToolRules>>

\* The aggregate tool is invoked.
Aggregate(sid, args, out) ==
    /\ toolPc = "idle"
    /\ IF aggregateParamsSchema(args)
       THEN Returns("aggregate", sid, aggregateInputAfter(args, aggregateToolRules),
                    aggregateFunc(sid, args, aggregateToolRules, out),
                    aggregateOps(args, aggregateToolRules), out)
       ELSE Raises("aggregate", sid, args)
    /\ UNCHANGED <<agentVars, sanVars, memVars, fmtVars, db, aggregateToolRules>>

\* The collectionSchema tool is invoked; out is what the reflection does.
CollectionSchema(sid, args, out) ==
    /\ toolPc = "idle"
    /\ IF collectionSchemaParamsSchema(args)
       THEN /\ tool' = [name |-> "collectionSchema", sessionId |-> sid]
            /\ toolInput' = args
            /\ toolPc' = "returned"
            /\ toolResult' = collectionSchemaFunc(sid, args, out)
            /\ outcome' = out
            /\ storeOps' = <<>>
       ELSE Raises("collectionSchema", sid, args)
    /\ UNCHANGED <<agentVars, sanVars, memVars, fmtVars, db, aggregateToolRules>>

(***************************************************************************)
(* The stores, rule tables and inputs the tools are invoked with.          *)
(***************************************************************************)
\* The names the tools are asked for: with a model, without one, and one
\* that has a model only once it is lower-cased.
InputCollections == ECollectionNames \cup {"invoices", "Users"}
Limits == {MinLimit - 1, MinLimit, MinLimit + 1, MaxLimit, MaxLimit + 1}
Repeat(doc, n) == [i \in 1..n |-> doc]
Contents ==
    SeqsUpTo(Docs, MaxDocs)
      \cup {Repeat(Doc("delivered"), n) : n \in {DefaultLimit + 1, MaxLimit + 1}}
Stores == {[c \in ECollectionNames |-> content] : content \in Contents}

WithFilter(S) ==
    S \cup {("filter" :> f) @@ args : f \in Filters, args \in S}
WithLimit(S) ==
    S \cup {("limit" :> n) @@ args : n \in Limits, args \in S}
CollectionInputs == {[collection |-> c] : c \in InputCollections}
CountInputs == WithFilter(CollectionInputs)
FindInputs == WithLimit(CountInputs)
AggregatePipelines ==
    {<<>>, <<MatchStage(OrdersFilter)>>, <<LookupStage("users")>>,
     <<UnionBare("orders")>>, <<LookupStage("constructor")>>,
     <<MatchStage(OrdersFilter), LookupStageWith("users", <<ProjectStage>>)>>}
AggregateInputs ==
    {[collection |-> c, pipeline |-> p] : c \in InputCollections, p \in AggregatePipelines}

ToolsInit ==
    /\ db \in Stores
    /\ aggregateToolRules \in RuleTables
    /\ toolPc = "idle"
    /\ tool = [name |-> "", sessionId |-> ""]
    /\ toolInput = [collection |-> ""]
    /\ outcome = NotAsked
    /\ storeOps = <<>>
    /\ toolResult = NoToolResult

ToolsStart == ToolsInit /\ AgentIdle /\ SanIdle /\ MemIdle /\ FmtIdle
ToolsNext ==
    \/ \E sid \in Sessions, args \in FindInputs, out \in Outcomes : Find(sid, args, out)
    \/ \E sid \in Sessions, args \in CountInputs, out \in Outcomes : Count(sid, args, out)
    \/ \E sid \in Sessions, args \in AggregateInputs, out \in Outcomes :
          Aggregate(sid, args, out)
    \/ \E sid \in Sessions, args \in CollectionInputs, out \in Outcomes :
          CollectionSchema(sid, args, out)
ToolsSpec == ToolsStart /\ [][ToolsNext]_vars

(***************************************************************************)
(* ConversationMemoryManager on its own: addMessage, getMessages and       *)
(* clearSession called one after the other (specification MemorySpec).     *)
(***************************************************************************)
\* The most messages added to one session.
MaxHistory == 3

StoredMessages == {HumanMessage("q1"), AIMessage(0)}
NotListed == [valid |-> FALSE, messages |-> <<>>]

\* addMessage(sessionId, message) is called and completes.
AddMessage(s, m) ==
    /\ memPc = "ready"
    /\ Len(log[s]) < MaxHistory
    /\ store' = addMessage(s, m)
    /\ log' = [log EXCEPT ![s] = Append(@, m)]
    /\ listed' = [listed EXCEPT ![s] = NotListed]
    /\ UNCHANGED <<turnVars, sanVars, toolVars, fmtVars, memoryType, redisUrl, memPc>>

\* getMessages(sessionId) is called and returns.
GetMessages(s) ==
    /\ memPc = "ready"
    /\ listed' = [listed EXCEPT ![s] = [valid |-> TRUE, messages |-> getMessages(s)]]
    /\ UNCHANGED <<turnVars, sanVars, toolVars, fmtVars, memoryType, redisUrl, store, memPc, log>>

\* clearSession(sessionId) is called and completes.
ClearMemory(s) ==
    /\ memPc = "ready"
    /\ store' = clearStore(s)
    /\ log' = [log EXCEPT ![s] = <<>>]
    /\ listed' = [listed EXCEPT ![s] = NotListed]
    /\ UNCHANGED <<turnVars, sanVars, toolVars, fmtVars, memoryType, redisUrl, memPc>>

TurnsIdle ==
    /\ pc = [t \in Turns |-> "Idle"]
    /\ input = [t \in Turns |-> ""]
    /\ sessionId = [t \in Turns |-> ""]
    /\ previousMessages = [t \in Turns |-> <<>>]
    /\ currentMessage = [t \in Turns |-> NoMessage]
    /\ lastMessage = [t \in Turns |-> NoMessage]
    /\ step = [t \in Turns |-> 0]
    /\ roundTrips = [t \in Turns |-> 0]
    /\ appended = [t \in Turns |-> <<>>]
    /\ result = [t \in Turns |-> NoResult]

MemoryInit ==
    /\ memoryType \in {"redis", "memory"}
    /\ redisUrl \in BOOLEAN
    /\ store = [s \in Sessions |-> <<>>]
    /\ memPc = "ready"
    /\ log = [s \in Sessions |-> <<>>]
    /\ listed = [s \in Sessions |-> NotListed]

MemoryStart == MemoryInit /\ TurnsIdle /\ SanIdle /\ ToolIdle /\ FmtIdle
MemoryNext ==
    \/ \E s \in Sessions, m \in StoredMessages : AddMessage(s, m)
    \/ \E s \in Sessions : GetMessages(s)
    \/ \E s \in Sessions : ClearMemory(s)
MemorySpec == MemoryStart /\ [][MemoryNext]_vars

(***************************************************************************)
(* schemaGenerator: extractCompletePathInfo, the reflection of one path of *)
(* a Mongoose schema, and formatFieldForAgent, the text of one field       *)
(* (specification FormatSpec).                                             *)
(*                                                                         *)
(* A schema type is a record: instance, isRequired, enumValues, options,   *)
(* caster (the item type of an array) and paths (the paths of an embedded  *)
(* schema, name and type, in their order); a field it does not have is not *)
(* in its DOMAIN.  Of the info, the fields that formatFieldForAgent does   *)
(* not read (pattern, minDate, maxDate, defaultValue, sparse,              *)
(* excludedByDefault, hasValidators, validatorCount, values) are left out. *)
(* Texts are strings; the names and enum values of the model hold no quote *)
(* and no backslash, so JSON.stringify escapes nothing in them.            *)
(***************************************************************************)
\* The most enum values of a string path.
MaxEnum == 3

None == [k \in {} |-> ""]
Field(k, v) == (k :> v)

RECURSIVE Join(_, _)
Join(seq, sep) ==
    IF seq = <<>> THEN ""
    ELSE IF Len(seq) = 1 THEN seq[1]
    ELSE seq[1] \o sep \o Join(Tail(seq), sep)

\* The values findCollectionByModelName returns: a string, null, or a value
\* inherited from Object.prototype.
StringValue(text) == [string |-> text]
Null == [null |-> TRUE]
Truthy(v) == v # Null /\ v # StringValue("")

\* What a template literal makes of a string or of an inherited value: the
\* source text of a native function, "[object Object]" for the prototype.
TemplateText(v) ==
    IF IsString(v) THEN v.string
    ELSE IF v.inherited = "__proto__" THEN "[object Object]"
    ELSE "function " \o (IF v.inherited = "constructor" THEN "Object" ELSE v.inherited)
           \o "() { [native code] }"

\* A slip in findCollectionByModelName: a name that is not in the table is
\* taken for a collection of that name.
findCollectionByModelNameGuess(modelName) ==
    CASE modelName \in {"User", "Users"} -> StringValue("users")
      [] modelName \in {"Product", "Products"} -> StringValue("products")
      [] modelName \in {"Order", "Orders"} -> StringValue("orders")
      [] OTHER -> StringValue(modelName)

\* findCollectionByModelName: modelToCollection[modelName] || null.  The
\* read of the table finds the collection of a model name, the inherited
\* value for a name of Object.prototype, and nothing for any other name.
findCollectionByModelName(modelName) ==
    CASE modelName \in {"User", "Users"} -> StringValue("users")
      [] modelName \in {"Product", "Products"} -> StringValue("products")
      [] modelName \in {"Order", "Orders"} -> StringValue("orders")
      [] modelName \in PrototypeNames -> Inherited(modelName)
      [] OTHER -> Null

\* options?.ref of a schema type, "" when it has none.
RefOf(schemaType) ==
    IF Has(schemaType.options, "ref") THEN schemaType.options.ref ELSE ""

\* ref and, when the name resolves, referenceCollection.
RefInfo(ref) ==
    IF ref = "" THEN None
    ELSE Field("ref", ref)
           @@ (IF Truthy(findCollectionByModelName(ref))
               THEN Field("referenceCollection", findCollectionByModelName(ref))
               ELSE None)

\* The common options of extractCompletePathInfo.
CommonInfo(schemaType) ==
    (IF schemaType.isRequired THEN Field("required", TRUE) ELSE None)
      @@ (IF Has(schemaType.options, "default") THEN Field("hasDefault", TRUE) ELSE None)
      @@ (IF Has(schemaType.options, "unique") /\ schemaType.options.unique
          THEN Field("unique", TRUE) ELSE None)
      @@ (IF Has(schemaType.options, "index") /\ schemaType.options.index
          THEN Field("indexed", TRUE) ELSE None)

\* rawInstance === "ObjectID" ? "ObjectId" : rawInstance
InstanceOf(schemaType) ==
    IF ~Has(schemaType, "instance") THEN ""
    ELSE IF schemaType.instance = "ObjectID" THEN "ObjectId"
    ELSE schemaType.instance

RECURSIVE extractCompletePathInfo(_)
RECURSIVE extractPaths(_)

\* The loop over the paths of an embedded schema: _id and __v are skipped.
extractPaths(paths) ==
    IF paths = <<>> THEN <<>>
    ELSE LET name == Head(paths)[1]
             rest == extractPaths(Tail(paths))
         IN IF name \in {"_id", "__v"} THEN rest
            ELSE <<<<name, extractCompletePathInfo(Head(paths)[2])>>>> \o rest

\* The switch of extractCompletePathInfo.
InstanceInfo(schemaType) ==
    LET instance == InstanceOf(schemaType)
        options == schemaType.options
    IN CASE instance = "String" ->
              Field("type", "String")
                @@ (IF Has(schemaType, "enumValues") /\ Len(schemaType.enumValues) > 0
                    THEN Field("enum", schemaType.enumValues)
                           @@ Field("enumCount", Len(schemaType.enumValues))
                    ELSE None)
                @@ (IF Has(options, "minlength") /\ options.minlength # 0
                    THEN Field("minLength", options.minlength) ELSE None)
                @@ (IF Has(options, "maxlength") /\ options.maxlength # 0
                    THEN Field("maxLength", options.maxlength) ELSE None)
         [] instance = "Number" ->
              Field("type", "Number")
                @@ (IF Has(options, "min") THEN Field("min", options.min) ELSE None)
                @@ (IF Has(options, "max") THEN Field("max", options.max) ELSE None)
         [] instance = "Date" -> Field("type", "Date")
         [] instance = "Boolean" -> Field("type", "Boolean")
         [] instance = "ObjectId" ->
              Field("type", "ObjectId") @@ RefInfo(RefOf(schemaType))
         [] instance = "Array" ->
              Field("type", "Array")
                @@ (IF Has(schemaType, "caster")
                    THEN Field("items",
                               RefInfo(RefOf(schemaType.caster))
                                 @@ extractCompletePathInfo(schemaType.caster))
                    ELSE None)
         [] instance = "Embedded" ->
              Field("type", "Object")
                @@ (IF Has(schemaType, "paths")
                    THEN Field("properties", extractPaths(schemaType.paths))
                           @@ Field("propertyCount", Len(extractPaths(schemaType.paths)))
                    ELSE None)
         [] instance = "Map" -> Field("type", "Map")
         [] OTHER -> Field("type", IF instance = "" THEN "Mixed" ELSE instance)

extractCompletePathInfo(schemaType) ==
    InstanceInfo(schemaType) @@ CommonInfo(schemaType)

\* A slip in the modifiers: unique is pushed before required.
modifiersUniqueFirst(fieldInfo) ==
    (IF Has(fieldInfo, "unique") /\ fieldInfo.unique THEN <<"unique">> ELSE <<>>)
      \o (IF Has(fieldInfo, "required") /\ fieldInfo.required THEN <<"required">> ELSE <<>>)
      \o (IF Has(fieldInfo, "indexed") /\ fieldInfo.indexed THEN <<"indexed">> ELSE <<>>)
      \o (IF Has(fieldInfo, "hasDefault") /\ fieldInfo.hasDefault THEN <<"has-default">> ELSE <<>>)

\* const modifiers: one push after the other.
modifiers(fieldInfo) ==
    (IF Has(fieldInfo, "required") /\ fieldInfo.required THEN <<"required">> ELSE <<>>)
      \o (IF Has(fieldInfo, "unique") /\ fieldInfo.unique THEN <<"unique">> ELSE <<>>)
      \o (IF Has(fieldInfo, "indexed") /\ fieldInfo.indexed THEN <<"indexed">> ELSE <<>>)
      \o (IF Has(fieldInfo, "hasDefault") /\ fieldInfo.hasDefault THEN <<"has-default">> ELSE <<>>)

\* const constraints: min and max when they are defined, minLen and maxLen
\* when they are truthy.
constraints(fieldInfo) ==
    (IF Has(fieldInfo, "min") THEN <<"min:" \o ToString(fieldInfo.min)>> ELSE <<>>)
      \o (IF Has(fieldInfo, "max") THEN <<"max:" \o ToString(fieldInfo.max)>> ELSE <<>>)
      \o (IF Has(fieldInfo, "minLength") /\ fieldInfo.minLength # 0
          THEN <<"minLen:" \o ToString(fieldInfo.minLength)>> ELSE <<>>)
      \o (IF Has(fieldInfo, "maxLength") /\ fieldInfo.maxLength # 0
          THEN <<"maxLen:" \o ToString(fieldInfo.maxLength)>> ELSE <<>>)

\* The text before the Array and Object cases: formatted after each +=.
plainText(fieldInfo) ==
    LET f1 == fieldInfo.type
        f2 == IF modifiers(fieldInfo) # <<>>
              THEN f1 \o "(" \o Join(modifiers(fieldInfo), ",") \o ")" ELSE f1
        f3 == IF Has(fieldInfo, "ref") /\ fieldInfo.ref # ""
              THEN f2 \o " -> " \o (IF Has(fieldInfo, "referenceCollection")
                                       /\ Truthy(fieldInfo.referenceCollection)
                                    THEN TemplateText(fieldInfo.referenceCollection)
                                    ELSE fieldInfo.ref)
              ELSE f2
        f4 == IF Has(fieldInfo, "enum")
              THEN f3 \o " [" \o Join(fieldInfo.enum, "|") \o "]" ELSE f3
        f5 == IF constraints(fieldInfo) # <<>>
              THEN f4 \o " {" \o Join(constraints(fieldInfo), ",") \o "}" ELSE f4
    IN f5

\* A text is built as a sequence of pieces: a piece is a double quote, a
\* backslash, or a text that holds neither of the two.
Quote == "\""
Backslash == "\\"

\* The escapes of JSON.stringify in a string: a backslash is put in front of
\* every double quote and of every backslash.
RECURSIVE escapePieces(_)
escapePieces(pieces) ==
    IF pieces = <<>> THEN <<>>
    ELSE (IF Head(pieces) \in {Quote, Backslash}
          THEN <<Backslash, Head(pieces)>>
          ELSE <<Head(pieces)>>)
           \o escapePieces(Tail(pieces))

\* JSON.stringify of a string.
stringifyString(pieces) == <<Quote>> \o escapePieces(pieces) \o <<Quote>>

RECURSIVE formatPieces(_)
RECURSIVE stringifyProps(_)

\* The members of JSON.stringify(props), with the commas between them:
\* "name":"text" for every property, the text being the one
\* formatFieldForAgent returns for the property.
stringifyProps(properties) ==
    IF properties = <<>> THEN <<>>
    ELSE stringifyString(<<Head(properties)[1]>>) \o <<":">>
           \o stringifyString(formatPieces(Head(properties)[2]))
           \o (IF Tail(properties) = <<>> THEN <<>> ELSE <<",">>)
           \o stringifyProps(Tail(properties))

\* The pieces of the text formatFieldForAgent returns.
formatPieces(fieldInfo) ==
    IF fieldInfo.type = "Object" /\ Has(fieldInfo, "properties")
    THEN <<"Object<", "{">> \o stringifyProps(fieldInfo.properties) \o <<"}", ">">>
    ELSE IF fieldInfo.type = "Array" /\ Has(fieldInfo, "items")
    THEN <<"Array<">> \o formatPieces(fieldInfo.items) \o <<">">>
    ELSE <<plainText(fieldInfo)>>

formatFieldForAgent(fieldInfo) == Join(formatPieces(fieldInfo), "")

\* extractCompletePathInfo(schemaType, pathName) is called and returns.
Extract ==
    /\ fmtPc = "type"
    /\ pathInfo' = extractCompletePathInfo(pathType)
    /\ fmtPc' = "info"
    /\ UNCHANGED <<agentVars, sanVars, toolVars, memVars, pathType, formatted>>

\* formatFieldForAgent(fieldInfo) is called and returns.
FormatField ==
    /\ fmtPc = "info"
    /\ formatted' = formatFieldForAgent(pathInfo)
    /\ fmtPc' = "text"
    /\ UNCHANGED <<agentVars, sanVars, toolVars, memVars, pathType, pathInfo>>

(***************************************************************************)
(* The schema types the reflection is given.                               *)
(***************************************************************************)
Optional(k, S) == {None} \cup {Field(k, v) : v \in S}
Merged(A, B) == {a @@ b : a \in A, b \in B}

EnumValues == <<"gold", "bronze", "silver", "platinum">>
Enums == {SubSeq(EnumValues, 1, n) : n \in 0..MaxEnum}
ModelNames == {"User", "Orders", "Invoice", "Customer", "constructor"}

CommonOptions ==
    Merged(Optional("unique", {TRUE}),
           Merged(Optional("index", {TRUE}), Optional("default", {"x"})))
StringOptions ==
    Merged(CommonOptions,
           Merged(Optional("minlength", {0, 2}), Optional("maxlength", {50})))
NumberOptions ==
    Merged(Optional("default", {"x"}),
           Merged(Optional("min", {0, 13}), Optional("max", {120})))
RefOptions == Optional("ref", ModelNames)

Types(instance, Required, Options) ==
    {[instance |-> instance, isRequired |-> r, options |-> o] :
        r \in Required, o \in Options}
StringTypes ==
    {Field("enumValues", e) @@ t :
        e \in Enums, t \in Types("String", BOOLEAN, StringOptions)}
NumberTypes == Types("Number", BOOLEAN, NumberOptions)
IdTypes ==
    Types("ObjectId", BOOLEAN, RefOptions) \cup Types("ObjectID", BOOLEAN, RefOptions)
OtherTypes ==
    Types("Date", BOOLEAN, {None}) \cup Types("Boolean", BOOLEAN, {None})
      \cup Types("Map", {FALSE}, {None}) \cup Types("Decimal128", {FALSE}, {None})
      \cup {[isRequired |-> FALSE, options |-> None]}
Casters ==
    Types("String", {FALSE}, {None}) \cup Types("ObjectId", {FALSE}, RefOptions)
      \cup Types("String", {FALSE}, Optional("ref", {"Product"}))
ArrayTypes ==
    Types("Array", BOOLEAN, {None})
      \cup {Field("caster", c) @@ t : c \in Casters, t \in Types("Array", BOOLEAN, {None})}
EmbeddedPaths ==
    {<<<<"_id", [instance |-> "ObjectId", isRequired |-> FALSE, options |-> None]>>,
       <<"street", [instance |-> "String", isRequired |-> TRUE, options |-> None]>>,
       <<"zip", [instance |-> "Number", isRequired |-> FALSE,
                 options |-> Field("min", 0)]>>>>,
     <<<<"geo", [instance |-> "Embedded", isRequired |-> FALSE, options |-> None,
                 paths |-> <<<<"lat", [instance |-> "Number", isRequired |-> FALSE,
                                       options |-> Field("min", 0)]>>,
                             <<"label", [instance |-> "String", isRequired |-> TRUE,
                                         options |-> None]>>>>]>>,
       <<"city", [instance |-> "String", isRequired |-> FALSE, options |-> None]>>>>,
     <<>>}
EmbeddedTypes ==
    Types("Embedded", {FALSE}, {None})
      \cup {Field("paths", p) @@ t :
              p \in EmbeddedPaths, t \in Types("Embedded", {FALSE}, {None})}
SchemaTypes ==
    StringTypes \cup NumberTypes \cup IdTypes \cup OtherTypes \cup ArrayTypes
      \cup EmbeddedTypes

FormatInit ==
    /\ pathType \in SchemaTypes
    /\ pathInfo = None
    /\ formatted = ""
    /\ fmtPc = "type"

FormatStart == FormatInit /\ AgentIdle /\ SanIdle /\ ToolIdle /\ MemIdle
FormatNext == Extract \/ FormatField
FormatSpec == FormatStart /\ [][FormatNext]_vars

(***************************************************************************)
(* Properties of the turn operation.                                       *)
(***************************************************************************)
Returned(t) == pc[t] = "Returned"
Succeeded(t) == Returned(t) /\ result[t].success
Failed(t) == Returned(t) /\ ~result[t].success
Aborted(t) == Failed(t) /\ result[t].error = GraphRecursionError
MachineStates == {"Deciding", "Acting", "Done"}

\* C1: a turn that returns success:false has put no message into the stored
\* history of its session, not even its user message.
C1_FailedTurnStoresNothing ==
    \A t \in Turns : Failed(t) => appended[t] = <<>>

\* C2: a turn that ended in Done and returned has put exactly two messages
\* into the stored history, its user message and then the final answer, and
\* no stored message is a tool request or a tool result.
C2_DoneStoresUserThenAnswer ==
    /\ \A t \in Turns :
          Succeeded(t) => appended[t] = <<currentMessage[t], lastMessage[t]>>
    /\ \A s \in Sessions : \A i \in 1..Len(store[s]) :
          \/ store[s][i].type = "human"
          \/ store[s][i].type = "ai" /\ store[s][i].tool_calls = 0

\* C3 as claimed: a turn is Aborted after exactly RecursionLimit
\* Deciding-to-Acting round trips, with no message stored.
C3_AbortedAfterLimitRoundTrips ==
    \A t \in Turns :
        Aborted(t) => roundTrips[t] = RecursionLimit /\ appended[t] = <<>>

\* C3 amended: a turn is Aborted exactly when RecursionLimit graph steps are
\* used up, Deciding and Acting steps counted alike, which is after
\* RecursionLimit / 2 round trips, every response having asked for a tool;
\* the turn returns success:false and has stored no message.  No turn makes
\* more steps or more round trips than that.
C3_AbortedWhenStepsUsedUp ==
    \A t \in Turns :
        /\ step[t] <= RecursionLimit
        /\ 2 * roundTrips[t] <= RecursionLimit
        /\ Aborted(t) =>
              /\ step[t] = RecursionLimit
              /\ 2 * roundTrips[t] = RecursionLimit
              /\ lastMessage[t].type = "tool"
              /\ result[t].success = FALSE
              /\ appended[t] = <<>>

C3_Witness == \E t \in Turns : Aborted(t)

\* C4: a turn enters the machine in Deciding; a Deciding step that gets a
\* response goes to Done exactly when the response carries no tool invocation
\* and to Acting exactly when it carries one or more; Acting goes back to
\* Deciding; Done is never left for Deciding or Acting.
C4_TurnStep(t) ==
    /\ (pc[t] \notin MachineStates /\ pc'[t] \in MachineStates) =>
          (pc[t] = "Idle" /\ pc'[t] = "Deciding")
    /\ (pc[t] = "Deciding" /\ step'[t] # step[t]) =>
          /\ lastMessage'[t].type = "ai"
          /\ pc'[t] = "Done" <=> lastMessage'[t].tool_calls = 0
          /\ pc'[t] = "Acting" <=> lastMessage'[t].tool_calls >= 1
    /\ (pc[t] = "Deciding" /\ pc'[t] \in {"Acting", "Done"}) => step'[t] # step[t]
    /\ (pc[t] = "Acting" /\ pc'[t] # "Acting") => pc'[t] = "Deciding"
    /\ (pc[t] = "Done" /\ pc'[t] # "Done") => pc'[t] \notin MachineStates

C4_Transitions == [][\A t \in Turns : C4_TurnStep(t)]_vars

C4_Witness ==
    \E t \in Turns : pc[t] = "Done" /\ roundTrips[t] >= 1 /\ lastMessage[t].tool_calls = 0

\* C5: every call of query ends with a result that has a success flag, the
\* session id and the query text; with success it has a response and no
\* error, without success an error and no response.  No call ends otherwise.
C5_StructuredResult ==
    \A t \in Turns :
        /\ pc[t] \in {"Idle", "Deciding", "Acting", "Done", "Storing", "Returned"}
        /\ Returned(t) =>
              LET r == result[t]
              IN /\ {"success", "sessionId", "query"} \subseteq DOMAIN r
                 /\ r.sessionId = sessionId[t]
                 /\ r.query = input[t]
                 /\ r.success => "response" \in DOMAIN r /\ "error" \notin DOMAIN r
                 /\ ~r.success => "error" \in DOMAIN r /\ "response" \notin DOMAIN r

C5_Witness ==
    \E t, u \in Turns :
        /\ Succeeded(t)
        /\ Failed(u) /\ result[u].error = MemoryBackendError /\ appended[u] # <<>>

(***************************************************************************)
(* Properties of sanitizePipeline.                                         *)
(***************************************************************************)
IsLookup(stage) == Has(stage, "$lookup")
IsFacet(stage) == Has(stage, "$facet")
IsUnion(stage) == Has(stage, "$unionWith")
IsBareUnion(stage) == IsUnion(stage) /\ IsString(stage["$unionWith"])
IsPlain(stage) == ~IsLookup(stage) /\ ~IsFacet(stage) /\ ~IsUnion(stage)

\* The collection a $lookup or $unionWith stage names.
RefColl(stage) ==
    IF IsLookup(stage) THEN stage["$lookup"].from
    ELSE IF IsBareUnion(stage) THEN stage["$unionWith"].string
    ELSE stage["$unionWith"].coll

\* The sub-pipeline of an object, empty when it has none.
SubOf(obj) == IF Has(obj, "pipeline") THEN obj.pipeline ELSE <<>>

\* The rule table has an entry of its own for the collection.
InTable(r, c) == c \in DOMAIN r

\* What is put in front for a name that the table has no entry for: nothing,
\* but for a name that every table inherits from Object.prototype, for which
\* the read of the table finds the inherited value.
InheritedFront(c) ==
    IF c \in PrototypeNames THEN <<MatchStage(Inherited(c))>> ELSE <<>>

\* The filter stages a rule table puts in front for a collection.
Front(r, c) == IF InTable(r, c) THEN <<MatchStage(r[c])>> ELSE InheritedFront(c)

Called == sanPc = "done" /\ Len(sanitized) = Len(original)

\* out is in as one level of the rewrite leaves it: the same kind of stage;
\* a plain stage as it was; a $lookup with the filter of its collection, if
\* any, and then its own stages; a $unionWith with the filter of its
\* collection, if any, in front of as many stages as it had, the plain ones
\* among them in their places.
Rewrites(in, out, r) ==
    /\ DOMAIN out = DOMAIN in
    /\ IsPlain(in) => out = in
    /\ IsLookup(in) =>
          /\ Has(out["$lookup"], "pipeline")
          /\ out["$lookup"].from = in["$lookup"].from
          /\ out["$lookup"].pipeline = Front(r, RefColl(in)) \o SubOf(in["$lookup"])
    /\ IsBareUnion(in) =>
          /\ ~IsString(out["$unionWith"])
          /\ out["$unionWith"].coll = RefColl(in)
          /\ SubOf(out["$unionWith"]) = Front(r, RefColl(in))
    /\ (IsUnion(in) /\ ~IsBareUnion(in) /\ Has(in["$unionWith"], "pipeline")) =>
          LET before == in["$unionWith"].pipeline
              front == Front(r, RefColl(in))
          IN /\ ~IsString(out["$unionWith"])
             /\ Has(out["$unionWith"], "pipeline")
             /\ out["$unionWith"].coll = RefColl(in)
             /\ LET after == out["$unionWith"].pipeline
                IN /\ Len(after) = Len(front) + Len(before)
                   /\ SubSeq(after, 1, Len(front)) = front
                   /\ \A j \in 1..Len(before) :
                         /\ DOMAIN after[Len(front) + j] = DOMAIN before[j]
                         /\ IsPlain(before[j]) => after[Len(front) + j] = before[j]

\* C6: a $lookup whose foreign collection has a rule comes back as a
\* $lookup whose sub-pipeline is the filter of the rule followed by the
\* caller's own stages, all of them, as they were and in their order; the
\* sub-pipeline may have been missing, empty or not.
C6_LookupFilterFirst ==
    Called =>
        \A i \in 1..Len(original) :
            (IsLookup(original[i]) /\ InTable(rules, RefColl(original[i]))) =>
                LET in == original[i]["$lookup"]
                IN /\ IsLookup(sanitized[i])
                   /\ DOMAIN sanitized[i]["$lookup"] = DOMAIN in \cup {"pipeline"}
                   /\ sanitized[i]["$lookup"].from = in.from
                   /\ sanitized[i]["$lookup"].as = in.as
                   /\ sanitized[i]["$lookup"].pipeline =
                         <<MatchStage(rules[in.from])>> \o SubOf(in)

C6_Witness ==
    /\ Called
    /\ \E i \in 1..Len(original) :
          /\ IsLookup(original[i]) /\ InTable(rules, RefColl(original[i]))
          /\ Len(SubOf(original[i]["$lookup"])) >= 2
          /\ original[i]["$lookup"].pipeline[1] = MatchStage(rules[RefColl(original[i])])
          /\ Len(sanitized[i]["$lookup"].pipeline) >= 3

\* C7 as claimed: a $unionWith given as a bare name without a rule comes
\* back as it was, the bare name.
C7_BareUnionStaysBare ==
    Called =>
        \A i \in 1..Len(original) :
            (IsBareUnion(original[i]) /\ ~InTable(rules, RefColl(original[i]))) =>
                sanitized[i] = original[i]

\* C7 amended: a $unionWith given as a bare name without a rule comes back
\* as the object {coll: name}: the name is wrapped, and no sub-pipeline and
\* no filter is added; only for a name of Object.prototype the object has a
\* sub-pipeline, which is the $match of the inherited value.
C7_BareUnionWrappedOnly ==
    Called =>
        \A i \in 1..Len(original) :
            (IsBareUnion(original[i]) /\ ~InTable(rules, RefColl(original[i]))) =>
                LET name == original[i]["$unionWith"].string
                IN /\ IsUnion(sanitized[i])
                   /\ sanitized[i]["$unionWith"].coll = name
                   /\ IF name \in PrototypeNames
                      THEN /\ DOMAIN sanitized[i]["$unionWith"] = {"coll", "pipeline"}
                           /\ sanitized[i]["$unionWith"].pipeline = InheritedFront(name)
                      ELSE DOMAIN sanitized[i]["$unionWith"] = {"coll"}

C7_Witness ==
    /\ Called
    /\ \E i \in 1..Len(original) :
          /\ IsBareUnion(original[i]) /\ ~InTable(rules, RefColl(original[i]))
          /\ rules # NoRules
          /\ sanitized[i] = UnionColl(RefColl(original[i]))

\* Every $lookup and $unionWith of p, at every depth, that names a
\* collection with a rule has a sub-pipeline that begins with its filter.
RECURSIVE AllFiltered(_, _)
StageFiltered(stage, r) ==
    IF IsLookup(stage) \/ (IsUnion(stage) /\ ~IsBareUnion(stage))
    THEN LET obj == IF IsLookup(stage) THEN stage["$lookup"] ELSE stage["$unionWith"]
         IN /\ InTable(r, RefColl(stage)) =>
                  /\ Len(SubOf(obj)) >= 1
                  /\ obj.pipeline[1] = MatchStage(r[RefColl(stage)])
            /\ AllFiltered(SubOf(obj), r)
    ELSE IF IsBareUnion(stage) THEN ~InTable(r, RefColl(stage))
    ELSE IF IsFacet(stage)
    THEN \A key \in DOMAIN stage["$facet"] : AllFiltered(stage["$facet"][key], r)
    ELSE TRUE

AllFiltered(p, r) == \A i \in 1..Len(p) : StageFiltered(p[i], r)

\* C8: in the result, every $lookup and $unionWith that names a collection
\* with a rule, nested however deep, begins its sub-pipeline with the filter.
C8_EveryDepthFiltered == Called => AllFiltered(sanitized, rules)

\* C9: a $unionWith that names a collection with a rule: the bare name
\* becomes {coll, pipeline: [filter]}; one with a sub-pipeline gets the
\* filter first and then its own stages, each rewritten, in their order.
C9_UnionFiltered ==
    Called =>
        \A i \in 1..Len(original) :
            (IsUnion(original[i]) /\ InTable(rules, RefColl(original[i]))) =>
                LET in == original[i]
                    c == RefColl(in)
                    filter == MatchStage(rules[c])
                IN /\ IsBareUnion(in) => sanitized[i] = UnionWith(c, <<filter>>)
                   /\ (~IsBareUnion(in) /\ Has(in["$unionWith"], "pipeline")) =>
                         /\ Rewrites(in, sanitized[i], rules)
                         /\ sanitized[i]["$unionWith"].pipeline[1] = filter
                         /\ \A j \in 1..Len(in["$unionWith"].pipeline) :
                               Rewrites(in["$unionWith"].pipeline[j],
                                        sanitized[i]["$unionWith"].pipeline[j + 1], rules)

C9_Witness ==
    /\ Called
    /\ \E i \in 1..Len(original) :
          /\ IsUnion(original[i]) /\ ~IsBareUnion(original[i])
          /\ InTable(rules, RefColl(original[i]))
          /\ \E j \in 1..Len(SubOf(original[i]["$unionWith"])) :
                LET inner == original[i]["$unionWith"].pipeline[j]
                IN /\ IsLookup(inner)
                   /\ InTable(rules, RefColl(inner))
                   /\ RefColl(inner) # RefColl(original[i])

\* C10: a $facet comes back with the same branch names, every branch
\* rewritten stage by stage on its own: a $lookup or $unionWith of a branch
\* gets the filter of the collection it names and no other.
C10_FacetBranchesOnTheirOwn ==
    Called =>
        \A i \in 1..Len(original) :
            IsFacet(original[i]) =>
                LET in == original[i]["$facet"]
                IN /\ IsFacet(sanitized[i])
                   /\ DOMAIN sanitized[i]["$facet"] = DOMAIN in
                   /\ \A key \in DOMAIN in :
                         /\ Len(sanitized[i]["$facet"][key]) = Len(in[key])
                         /\ \A j \in 1..Len(in[key]) :
                               Rewrites(in[key][j], sanitized[i]["$facet"][key][j], rules)

C10_Witness ==
    /\ Called
    /\ \E i \in 1..Len(original) :
          /\ IsFacet(original[i])
          /\ DOMAIN original[i]["$facet"] = {"a", "b"}
          /\ LET in == original[i]["$facet"]
                 out == sanitized[i]["$facet"]
             IN /\ Len(in.a) = 1 /\ IsLookup(in.a[1]) /\ RefColl(in.a[1]) = "users"
                /\ Len(in.b) = 1 /\ IsUnion(in.b[1]) /\ RefColl(in.b[1]) = "orders"
                /\ InTable(rules, "users") /\ InTable(rules, "orders")
                /\ out.a[1]["$lookup"].pipeline[1] = MatchStage(UsersFilter)
                /\ out.b[1]["$unionWith"].pipeline[1] = MatchStage(OrdersFilter)

\* C11: sanitizePipeline leaves the pipeline it is given as it was, nested
\* stages and sub-pipelines included, so a second call on the pipeline the
\* caller holds returns what the first call returned.
C11_SanitizeIsPure ==
    /\ sanPc \in {"done", "twice"} => pipeline = original
    /\ sanPc = "twice" => sanitizedAgain = sanitized

\* out is in but for the form of its stages: a plain stage is as it was; a
\* $lookup has its fields and its own sub-pipeline, an empty one if it had
\* none; a $unionWith names the same collection, as an object, and has a
\* sub-pipeline exactly when it had one; a $facet has the same branches; the
\* sub-pipelines of a $unionWith and of a $facet are the same in this sense.
RECURSIVE SameButForm(_, _)
SameStageButForm(in, out) ==
    /\ DOMAIN out = DOMAIN in
    /\ IsPlain(in) => out = in
    /\ IsLookup(in) =>
          /\ DOMAIN out["$lookup"] = DOMAIN in["$lookup"] \cup {"pipeline"}
          /\ \A k \in DOMAIN in["$lookup"] \ {"pipeline"} :
                out["$lookup"][k] = in["$lookup"][k]
          /\ out["$lookup"].pipeline
                = InheritedFront(RefColl(in)) \o SubOf(in["$lookup"])
    /\ IsBareUnion(in) =>
          out = IF InheritedFront(RefColl(in)) = <<>>
                THEN UnionColl(RefColl(in))
                ELSE UnionWith(RefColl(in), InheritedFront(RefColl(in)))
    /\ (IsUnion(in) /\ ~IsBareUnion(in)) =>
          /\ DOMAIN out["$unionWith"] = DOMAIN in["$unionWith"]
          /\ out["$unionWith"].coll = in["$unionWith"].coll
          /\ Has(in["$unionWith"], "pipeline") =>
                LET front == InheritedFront(RefColl(in))
                    after == out["$unionWith"].pipeline
                IN /\ Len(after) >= Len(front)
                   /\ SubSeq(after, 1, Len(front)) = front
                   /\ SameButForm(in["$unionWith"].pipeline,
                                  SubSeq(after, Len(front) + 1, Len(after)))
    /\ IsFacet(in) =>
          /\ DOMAIN out["$facet"] = DOMAIN in["$facet"]
          /\ \A key \in DOMAIN in["$facet"] :
                SameButForm(in["$facet"][key], out["$facet"][key])

SameButForm(p, q) ==
    /\ Len(q) = Len(p)
    /\ \A i \in 1..Len(p) : SameStageButForm(p[i], q[i])

\* C12 as claimed: with an empty rule table sanitizePipeline returns a
\* pipeline equal to the one it was given.
C12_EmptyTableReturnsInput ==
    (Called /\ rules = NoRules) => sanitized = original

\* C12 amended: with an empty rule table sanitizePipeline drops no stage and
\* adds no filter, the result is the input but for the form of its stages: a
\* $lookup it visits has a sub-pipeline, a bare $unionWith is the object
\* {coll}.  Only a visited $lookup, a bare $unionWith and a $unionWith with a
\* sub-pipeline that name a property of Object.prototype are given the $match
\* of the inherited value; a $unionWith given as {coll} alone is returned as
\* it was, whatever its name.
C12_EmptyTableKeepsAllButForm ==
    (Called /\ rules = NoRules) => SameButForm(original, sanitized)

C12_Witness ==
    /\ Called /\ rules = NoRules
    /\ \E i \in 1..Len(original) :
          /\ IsFacet(original[i])
          /\ DOMAIN original[i]["$facet"] = {"a", "b"}
          /\ original[i]["$facet"].a = <<LookupStage("users")>>
          /\ original[i]["$facet"].b = <<UnionBare("orders")>>
          /\ sanitized[i]["$facet"].a = <<LookupStageWith("users", <<>>)>>
          /\ sanitized[i]["$facet"].b = <<UnionColl("orders")>>

(***************************************************************************)
(* Properties of the tools.                                                *)
(***************************************************************************)
ToolDone == toolPc \in {"returned", "raised"}
Invoked(name) == ToolDone /\ tool.name = name

\* The field of a success envelope that carries what the operation found.
Payload(name) ==
    CASE name = "find" -> "documents"
      [] name = "count" -> "count"
      [] name = "aggregate" -> "documents"
      [] name = "collectionSchema" -> "collectionJsonSchema"

IsEnvelope(e) == Has(e, "success") /\ Has(e, "sessionId")
IsSuccessEnvelope(e, name, sid) ==
    /\ IsEnvelope(e) /\ e.success /\ e.sessionId = sid
    /\ Has(e, Payload(name)) /\ ~Has(e, "error")
IsFailureEnvelope(e, sid) ==
    /\ IsEnvelope(e) /\ ~e.success /\ e.sessionId = sid
    /\ DOMAIN e = {"success", "sessionId", "error"}

\* C13: every invocation of a tool returns an envelope and raises nothing;
\* the envelope is a success envelope with the payload and no error, or a
\* failure envelope with an error and no payload.
C13_AlwaysOneEnvelope ==
    ToolDone =>
        /\ toolPc = "returned"
        /\ \/ IsSuccessEnvelope(toolResult, tool.name, tool.sessionId)
           \/ IsFailureEnvelope(toolResult, tool.sessionId)

\* C14: collectionSchema invoked with a name that has no model returns a
\* failure envelope, and its error is not the error of an empty schema.
C14_UnknownCollectionIsItsOwnFailure ==
    (Invoked("collectionSchema") /\ toolInput.collection \notin ECollectionNames) =>
        /\ toolPc = "returned"
        /\ IsFailureEnvelope(toolResult, tool.sessionId)
        /\ toolResult.error # SchemaEmptyError

\* C15: a success envelope of collectionSchema has fieldCount >= 1 and as
\* many fields in its payload; when the reflection threw, and the formatted
\* schema is therefore empty, the envelope is a failure envelope.
C15_NoEmptySuccess ==
    (Invoked("collectionSchema") /\ toolPc = "returned") =>
        /\ toolResult.success =>
              /\ IsSuccessEnvelope(toolResult, "collectionSchema", tool.sessionId)
              /\ toolResult.fieldCount >= 1
              /\ Len(toolResult.collectionJsonSchema) = toolResult.fieldCount
        /\ outcome.kind = "reject" =>
              /\ IsFailureEnvelope(toolResult, tool.sessionId)
              /\ toolResult.error = SchemaEmptyError

C15_Witness ==
    /\ Invoked("collectionSchema") /\ toolPc = "returned"
    /\ toolInput.collection \in ECollectionNames
    /\ outcome.kind = "reject"
    /\ ~toolResult.success

\* The limit a find call asks for: the limit of the input brought into
\* MinLimit..MaxLimit, DefaultLimit when the input has none.
EffectiveLimit(args) ==
    IF ~Has(args, "limit") THEN DefaultLimit
    ELSE IF args.limit < MinLimit THEN MinLimit
    ELSE IF args.limit > MaxLimit THEN MaxLimit
    ELSE args.limit

\* The documents a call handed to its caller.
ReturnedDocuments ==
    IF toolPc = "returned" /\ toolResult.success THEN toolResult.documents ELSE <<>>

\* C17: find returns no more documents than the effective limit, and every
\* one of them matches the filter of the input.
C17_FindWithinLimit ==
    Invoked("find") =>
        /\ Len(ReturnedDocuments) <= EffectiveLimit(toolInput)
        /\ \A i \in 1..Len(ReturnedDocuments) :
              Matches(ReturnedDocuments[i], FilterOf(toolInput))

C17_Witness ==
    /\ Invoked("find") /\ toolPc = "returned" /\ toolResult.success
    /\ Has(toolInput, "limit") /\ Has(toolInput, "filter")
    /\ Len(toolResult.documents) = toolInput.limit
    /\ storeCount(toolInput.collection, toolInput.filter) > toolInput.limit
    /\ \E i \in 1..Len(db[toolInput.collection]) :
          ~Matches(db[toolInput.collection][i], toolInput.filter)

\* C18: find, count and aggregate invoked with a name that has no model
\* return a failure envelope and issue no operation to the store.
C18_UnknownCollectionFailsWithoutStore ==
    (ToolDone /\ tool.name \in {"find", "count", "aggregate"}
       /\ ~HasModel(toolInput.collection)) =>
        /\ toolPc = "returned"
        /\ IsFailureEnvelope(toolResult, tool.sessionId)
        /\ storeOps = <<>>

\* C19: when the store rejects the operation of find, count or aggregate,
\* the tool returns the failure envelope whose error is the message of the
\* store.
C19_StoreMessageKept ==
    (ToolDone /\ tool.name \in {"find", "count", "aggregate"}
       /\ outcome.kind = "reject") =>
        /\ toolPc = "returned"
        /\ toolResult = [success |-> FALSE, sessionId |-> tool.sessionId,
                         error |-> outcome.message]

C19_Witness ==
    /\ Invoked("aggregate") /\ toolPc = "returned"
    /\ outcome.kind = "reject"
    /\ Len(storeOps) = 1
    /\ toolResult.error = "unknown top level operator: $foo"

(***************************************************************************)
(* Properties of the memory manager and of the tools node.                 *)
(***************************************************************************)
\* C16: what getMessages of a session returned, with no addMessage and no
\* clearSession of the session since, is the messages added to the session
\* since its last clear, in the order they were added; this for the Redis
\* history and for the in-process history.
C16_ListReturnsAppended ==
    \A s \in Sessions : listed[s].valid => listed[s].messages = log[s]

\* C20: the step that ends Acting, whether the envelopes of its tools are
\* success or failure, leaves a tool message as the last message of the
\* working history and the turn in Deciding, with no result returned.
C20_ActingStep(t) ==
    (pc[t] = "Acting" /\ (pc'[t] # "Acting" \/ step'[t] # step[t])) =>
        /\ pc'[t] = "Deciding"
        /\ lastMessage'[t].type = "tool"
        /\ result'[t] = NoResult

C20_ToolFailureGoesBackToDeciding == [][\A t \in Turns : C20_ActingStep(t)]_vars

C20_Witness ==
    \E t \in Turns :
        /\ pc[t] = "Deciding"
        /\ lastMessage[t] = ToolMessage(FALSE)
        /\ roundTrips[t] >= 1
        /\ result[t] = NoResult

(***************************************************************************)
(* Further properties of the turn operation.                               *)
(***************************************************************************)
\* C21: a call of query either starts to work with the history it read from
\* the backend of the configuration, or, when that read fails, returns
\* success:false with no node of the graph run, no message stored and the
\* backend of the configuration as it was; it never starts to work with a
\* history other than the one of that backend.
C21_CallStep(t) ==
    (pc[t] = "Idle" /\ pc'[t] # "Idle") =>
        /\ memoryType' = memoryType /\ redisUrl' = redisUrl /\ store' = store
        /\ \/ /\ pc'[t] = "Deciding"
              /\ previousMessages'[t] = getMessages(sessionId'[t])
              /\ result'[t] = NoResult
           \/ /\ pc'[t] = "Returned"
              /\ UsesRedis
              /\ result'[t] =
                    FailureResult(sessionId'[t], input'[t], MemoryBackendError)
              /\ step'[t] = 0 /\ roundTrips'[t] = 0
              /\ lastMessage'[t] = NoMessage /\ appended'[t] = <<>>

C21_ReadFailureIsFatal == [][\A t \in Turns : C21_CallStep(t)]_vars

C21_Witness ==
    \E t \in Turns :
        /\ Failed(t) /\ result[t].error = MemoryBackendError
        /\ currentMessage[t] = NoMessage /\ step[t] = 0
        /\ UsesRedis
        /\ store[sessionId[t]] # <<>>

(***************************************************************************)
(* Properties of the reflection and of the text of a field.                *)
(***************************************************************************)
\* The text of a field that is neither Array nor Object has been returned.
ScalarText == fmtPc = "text" /\ pathInfo.type \notin {"Array", "Object"}

ModifierNames ==
    <<<<"required", "required">>, <<"unique", "unique">>,
      <<"indexed", "indexed">>, <<"hasDefault", "has-default">>>>
ConstraintNames ==
    <<<<"min", "min">>, <<"max", "max">>,
      <<"minLength", "minLen">>, <<"maxLength", "maxLen">>>>
PresentOf(info, names) == SelectSeq(names, LAMBDA n : Has(info, n[1]))

ModifiersPart(info) ==
    LET present == PresentOf(info, ModifierNames)
    IN IF present = <<>> THEN ""
       ELSE "(" \o Join([i \in 1..Len(present) |-> present[i][2]], ",") \o ")"
TargetPart(info) ==
    IF ~Has(info, "ref") THEN ""
    ELSE IF Has(info, "referenceCollection")
    THEN " -> " \o TemplateText(info.referenceCollection)
    ELSE " -> " \o info.ref
EnumPart(info) ==
    IF Has(info, "enum") THEN " [" \o Join(info.enum, "|") \o "]" ELSE ""
ConstraintsPart(info) ==
    LET present == PresentOf(info, ConstraintNames)
    IN IF present = <<>> THEN ""
       ELSE " {" \o Join([i \in 1..Len(present) |->
                            present[i][2] \o ":" \o ToString(info[present[i][1]])], ",")
                 \o "}"

\* C22: the text of a field that is neither Array nor Object is the type
\* name, then the present modifiers among required, unique, indexed and
\* has-default in that order in parentheses, then the reference target
\* after " -> ", then the enum values in their declaration order joined by
\* "|" in brackets, then the present constraints among min, max, minLen and
\* maxLen in that order in braces; a part that is absent leaves no trace.
C22_PartsInFixedOrder ==
    ScalarText =>
        /\ formatted = pathInfo.type \o ModifiersPart(pathInfo) \o TargetPart(pathInfo)
                         \o EnumPart(pathInfo) \o ConstraintsPart(pathInfo)
        /\ Has(pathInfo, "enum") => pathInfo.enum = pathType.enumValues
C22_Witness ==
    /\ ScalarText
    /\ Has(pathInfo, "enum") /\ Len(pathInfo.enum) = MaxEnum
    /\ Has(pathInfo, "required") /\ Has(pathInfo, "unique") /\ Has(pathInfo, "hasDefault")
    /\ ~Has(pathInfo, "indexed")
    /\ Has(pathInfo, "minLength") /\ Has(pathInfo, "maxLength")
    /\ formatted = "String(required,unique,has-default) ["
                     \o Join(SubSeq(EnumValues, 1, MaxEnum), "|")
                     \o "] {minLen:2,maxLen:50}"

\* An Identifier path whose model name is not in the table has been
\* reflected and formatted.
UnresolvableRef ==
    /\ fmtPc = "text"
    /\ InstanceOf(pathType) = "ObjectId"
    /\ RefOf(pathType) \notin {"", "User", "Users", "Product", "Products", "Order", "Orders"}

\* C23 as it is stated: the reference is absent from the info of such a path
\* and its text has no " -> target" part.
C23_ReferenceAbsent ==
    UnresolvableRef =>
        /\ ~Has(pathInfo, "ref") /\ ~Has(pathInfo, "referenceCollection")
        /\ formatted = "ObjectId" \o ModifiersPart(pathInfo)

\* C23, amended: the reflection of such a path succeeds and leaves the
\* reference collection absent, but it keeps the model name, and the text
\* carries the model name after " -> ".  Only for a model name that is a
\* property of Object.prototype the reference collection is the inherited
\* value, and the text carries what a template literal makes of that value.
C23_ModelNameKept ==
    UnresolvableRef =>
        /\ Has(pathInfo, "ref") /\ pathInfo.ref = RefOf(pathType)
        /\ IF RefOf(pathType) \in PrototypeNames
           THEN /\ Has(pathInfo, "referenceCollection")
                /\ pathInfo.referenceCollection = Inherited(RefOf(pathType))
                /\ formatted = "ObjectId" \o ModifiersPart(pathInfo) \o " -> "
                                 \o TemplateText(Inherited(RefOf(pathType)))
           ELSE /\ ~Has(pathInfo, "referenceCollection")
                /\ formatted = "ObjectId" \o ModifiersPart(pathInfo) \o " -> "
                                 \o RefOf(pathType)
C23_Witness ==
    /\ UnresolvableRef
    /\ pathType.instance = "ObjectID"
    /\ RefOf(pathType) = "Customer"
    /\ formatted = "ObjectId -> Customer"

(***************************************************************************)
(* Properties of turns that share the agent.                               *)
(***************************************************************************)
InFlight(t) == pc[t] \notin {"Idle", "Returned"}
Concurrent(t) ==
    \E u \in Turns \ {t} : InFlight(u) /\ sessionId[u] = sessionId[t]

\* C25: when a turn stores a message while another turn on the same session
\* is in flight, the stored history of the session after the step is the one
\* before it with the message at its end, the user message at the first
\* addMessage and the answer at the second: no append is lost and none
\* overwrites a message.
C25_StoreStep(t) ==
    /\ (pc[t] = "Done" /\ pc'[t] = "Storing" /\ Concurrent(t)) =>
          store'[sessionId[t]] = Append(store[sessionId[t]], currentMessage[t])
    /\ (pc[t] = "Storing" /\ pc'[t] = "Returned" /\ result'[t].success /\ Concurrent(t)) =>
          store'[sessionId[t]] = Append(store[sessionId[t]], lastMessage[t])
C25_NoAppendLost == [][\A t \in Turns : C25_StoreStep(t)]_vars

\* The messages the turns on a session have put into its stored history.
Range(seq) == {seq[i] : i \in 1..Len(seq)}
PutInto(b) == UNION {Range(appended[u]) : u \in {v \in Turns : sessionId[v] = b}}
Isolated ==
    /\ \A b \in Sessions : Range(store[b]) \subseteq PutInto(b)
    /\ \A t \in Turns : Range(previousMessages[t]) \subseteq PutInto(sessionId[t])
OneSessionStep ==
    \A b \in Sessions :
        store'[b] # store[b] =>
            /\ \A c \in Sessions \ {b} : store'[c] = store[c]
            /\ \A t \in Turns : pc'[t] # pc[t] => sessionId[t] = b

\* C26: a step changes the stored history of one session at most, a step of
\* a turn changes that of the turn's own session only, and the stored
\* history of a session and the working history of a turn on it hold only
\* messages that turns on that session have stored.
C26_SessionsIsolated == [][OneSessionStep /\ Isolated']_vars
C26_Witness ==
    \E t, u \in Turns :
        /\ Succeeded(t) /\ sessionId[t] = "s1" /\ input[t] = "q1"
        /\ Succeeded(u) /\ sessionId[u] = "s2" /\ input[u] = "q2"
        /\ store["s1"] = <<HumanMessage("q1"), lastMessage[t]>>
        /\ store["s2"] = <<HumanMessage("q2"), lastMessage[u]>>
        /\ previousMessages[u] = <<>>

\* C30: at the step that returns a success result, conversationLength is the
\* number of messages stored for the session of the turn.
C30_ReturnStep(t) ==
    (pc[t] = "Storing" /\ pc'[t] = "Returned" /\ result'[t].success) =>
        result'[t].conversationLength = Len(store'[sessionId[t]])
C30_LengthIsStoredCount == [][\A t \in Turns : C30_ReturnStep(t)]_vars

(***************************************************************************)
(* Further properties of sanitizePipeline.                                 *)
(***************************************************************************)
\* Stage out is of the kind of stage in and names what it names: the same
\* foreign collection for a $lookup, the same collection for a $unionWith,
\* the same branches for a $facet.
SameStageKind(in, out) ==
    /\ DOMAIN out = DOMAIN in
    /\ IsLookup(in) => out["$lookup"].from = in["$lookup"].from
                         /\ out["$lookup"].as = in["$lookup"].as
    /\ IsUnion(in) => ~IsString(out["$unionWith"])
                        /\ out["$unionWith"].coll = RefColl(in)
    /\ IsFacet(in) => DOMAIN out["$facet"] = DOMAIN in["$facet"]

\* C27: the pipeline sanitize returns has as many stages as the one it was
\* given, stage i of it is of the kind of stage i of the input and names the
\* same collection or branches, and a stage that is not a $lookup, $facet or
\* $unionWith is returned as it was.
C27_StagesKeptInPlace ==
    sanPc = "done" =>
        /\ Len(sanitized) = Len(original)
        /\ \A i \in 1..Len(original) :
              /\ i <= Len(sanitized) => SameStageKind(original[i], sanitized[i])
              /\ (i <= Len(sanitized) /\ IsPlain(original[i])) => sanitized[i] = original[i]
\* The count a successful aggregate reports is the number of stages of the
\* pipeline it was given (specification ToolsSpec).
AggregateCountsSuppliedStages ==
    Has(toolResult, "pipeline_stages") =>
        toolResult.pipeline_stages = Len(toolInput.pipeline)
C27_Witness ==
    /\ sanPc = "done"
    /\ Len(original) = 2 /\ Len(sanitized) = 2
    /\ IsPlain(original[1]) /\ sanitized[1] = original[1]
    /\ IsLookup(original[2]) /\ IsLookup(sanitized[2])
    /\ sanitized[2] # original[2]

\* A $unionWith stage in object form, without a sub-pipeline.
IsCollOnlyUnion(stage) ==
    IsUnion(stage) /\ ~IsBareUnion(stage) /\ ~Has(stage["$unionWith"], "pipeline")

\* C28: a $unionWith given as {coll} alone, whose collection has a rule,
\* comes back with a sub-pipeline whose first stage is the filter of the
\* rule.
C28_CollOnlyUnionFiltered ==
    Called =>
        \A i \in 1..Len(original) :
            (IsCollOnlyUnion(original[i]) /\ InTable(rules, RefColl(original[i]))) =>
                /\ IsUnion(sanitized[i])
                /\ Has(sanitized[i]["$unionWith"], "pipeline")
                /\ Len(sanitized[i]["$unionWith"].pipeline) >= 1
                /\ sanitized[i]["$unionWith"].pipeline[1]
                     = MatchStage(rules[RefColl(original[i])])

\* A $lookup whose foreign collection has no rule.
IsFreeLookup(stage) == IsLookup(stage) /\ ~InTable(rules, stage["$lookup"].from)

\* C29 as it is stated: a $lookup whose foreign collection has no rule is
\* returned as it was given.
C29_FreeLookupUnchanged ==
    Called =>
        \A i \in 1..Len(original) :
            IsFreeLookup(original[i]) => sanitized[i] = original[i]

\* C29, amended: such a $lookup is returned with its fields as they were and
\* with the sub-pipeline it had, stage for stage; when it had none it is
\* returned with an empty one.  Only when its foreign collection is named
\* as a property of Object.prototype the $match of the inherited value is
\* put in front.
C29_FreeLookupKeepsStages ==
    Called =>
        \A i \in 1..Len(original) :
            IsFreeLookup(original[i]) =>
                /\ IsLookup(sanitized[i])
                /\ DOMAIN sanitized[i]["$lookup"]
                     = DOMAIN original[i]["$lookup"] \cup {"pipeline"}
                /\ \A k \in DOMAIN original[i]["$lookup"] \ {"pipeline"} :
                      sanitized[i]["$lookup"][k] = original[i]["$lookup"][k]
                /\ sanitized[i]["$lookup"].pipeline
                     = InheritedFront(RefColl(original[i])) \o SubOf(original[i]["$lookup"])
C29_Witness ==
    /\ Called
    /\ \E i \in 1..Len(original) :
          /\ IsFreeLookup(original[i])
          /\ ~Has(original[i]["$lookup"], "pipeline")
          /\ sanitized[i]["$lookup"].pipeline = <<>>
    /\ rules # NoRules

(***************************************************************************)
(* Termination of the decide/act loop (specification FairSpec).            *)
(***************************************************************************)
InLoop(t) == pc[t] \in {"Deciding", "Acting"}
ModelFailed(t) == Failed(t) /\ result[t].error = ModelError

\* C24: a turn that is in the decide/act loop leaves it: it reaches Done or
\* it is Aborted by the step bound, whatever the reasoning capability
\* answers; the one other way out is that the call of the reasoning
\* capability throws instead of returning.
C24_LoopEnds ==
    \A t \in Turns : InLoop(t) ~> (pc[t] = "Done" \/ Aborted(t) \/ ModelFailed(t))
C24_Witness ==
    \E t \in Turns : Aborted(t) /\ step[t] = RecursionLimit /\ roundTrips[t] > 0

====
